---- MODULE Spec2Model ----
(***************************************************************************)
(* Model of the DevHub tool-orchestration loop (devhub/agent.py) and of    *)
(* the three fault-injecting backends it calls (devhub/services/*.py).     *)
(* Spec is one call of DevHubAgent.query; BackendSpec is the backends      *)
(* called directly, with the failure rates of Config assigned at run time. *)
(*                                                                         *)
(* Python values are tagged records.  A Python str is a sequence of atoms  *)
(* (chunks of characters); a text is a sequence of tokens, so that         *)
(* str.split, str.startswith, json.loads and json.dumps are modelled by    *)
(* what they do on the tokens.  Floats are fixed-point hundredths.         *)
(***************************************************************************)
EXTENDS Integers, Sequences, FiniteSets, TLC

(***************************************************************************)
(* Python values                                                           *)
(***************************************************************************)
None == [t |-> "none"]
Str(atoms) == [t |-> "str", s |-> atoms]
Num(n) == [t |-> "num", n |-> n]
Bool(b) == [t |-> "bool", b |-> b]
List(xs) == [t |-> "list", items |-> xs]
Dict(f) == [t |-> "dict", d |-> f]

S(w) == Str(<<w>>)
EmptyStr == Str(<<>>)
EmptyDict == Dict(<<>>)
K(w) == <<w>>

\* dict.get(key, default); raises AttributeError when v is not a dict, which
\* the callers test with IsDict before they use it
IsDict(v) == v.t = "dict"
IsStr(v) == v.t = "str"
Get(v, key, default) == IF key \in DOMAIN v.d THEN v.d[key] ELSE default
\* v[key] for a key given by its name
Field(r, key) == r.d[K(key)]

(***************************************************************************)
(* Texts: sequences of tokens                                              *)
(***************************************************************************)
P(c) == [k |-> "p", w |-> c]
Word(w) == [k |-> "w", w |-> w]
NumTok(n) == [k |-> "n", n |-> n]
\* the three backticks of a Markdown code fence, written ''' here
Fence == P("'''")
WS == P("\n")
Quote == P("\"")
LBracket == P("[")
RBracket == P("]")
LBrace == P("{")
RBrace == P("}")
Comma == P(",")
Colon == P(":")

\* the token an atom of a str is written as inside a JSON string literal,
\* and the atom a token between two quotes is read as
AtomTok(a) == IF a = "'''" THEN Fence ELSE Word(a)
TokAtom(tk) == IF tk.k = "n" THEN ToString(tk.n) ELSE tk.w

\* order in which json.dumps writes the keys of the dicts of this program
\* (insertion order of the dict literals in the source)
KeyOrder ==
    << K("tool"), K("success"), K("data"), K("error"), K("args"), K("query"),
       K("service"), K("found"), K("owner"), K("team"), K("documents"),
       K("metadatas"), K("distances"), K("id"), K("name"), K("title"),
       K("category"), K("email"), K("slack_handle"), K("slack_channel"),
       K("services"), K("is_active"), K("status"), K("uptime_percent"),
       K("last_incident"), K("incident_description"), K("latency_ms") >>

RECURSIVE JoinWith(_, _)
JoinWith(parts, sep) ==
    IF parts = <<>> THEN <<>>
    ELSE IF Len(parts) = 1 THEN parts[1]
    ELSE parts[1] \o sep \o JoinWith(Tail(parts), sep)

StrTokens(atoms) == <<Quote>> \o [i \in 1..Len(atoms) |-> AtomTok(atoms[i])] \o <<Quote>>

\* json.dumps
RECURSIVE Dumps(_)
Dumps(v) ==
    CASE v.t = "none" -> <<Word("null")>>
      [] v.t = "bool" -> <<Word(IF v.b THEN "true" ELSE "false")>>
      [] v.t = "num" -> <<NumTok(v.n)>>
      [] v.t = "str" -> StrTokens(v.s)
      [] v.t = "list" ->
            <<LBracket>>
            \o JoinWith([i \in 1..Len(v.items) |-> Dumps(v.items[i])], <<Comma>>)
            \o <<RBracket>>
      [] v.t = "dict" ->
            LET keys == SelectSeq(KeyOrder, LAMBDA key : key \in DOMAIN v.d)
            IN  <<LBrace>>
                \o JoinWith([i \in 1..Len(keys) |->
                                StrTokens(keys[i]) \o <<Colon>> \o Dumps(v.d[keys[i]])],
                            <<Comma>>)
                \o <<RBrace>>

(***************************************************************************)
(* json.loads: a recursive-descent parser over the tokens.  A parse result *)
(* is [ok, val, pos]: pos is the index of the first token not consumed.    *)
(***************************************************************************)
ParseFail == [ok |-> FALSE, val |-> None, pos |-> 0]
ParseOk(v, p) == [ok |-> TRUE, val |-> v, pos |-> p]

RECURSIVE SkipWS(_, _)
SkipWS(ts, i) == IF i <= Len(ts) /\ ts[i] = WS THEN SkipWS(ts, i + 1) ELSE i

\* a string literal whose opening quote is at i - 1: atoms up to the closing
\* quote; a raw newline inside a literal is a control character, an error
RECURSIVE ParseString(_, _, _)
ParseString(ts, i, acc) ==
    IF i > Len(ts) \/ ts[i] = WS THEN ParseFail
    ELSE IF ts[i] = Quote THEN ParseOk(Str(acc), i + 1)
    ELSE ParseString(ts, i + 1, Append(acc, TokAtom(ts[i])))

RECURSIVE ParseValue(_, _)
RECURSIVE ParseElems(_, _, _)
RECURSIVE ParseMembers(_, _, _)

\* elements of an array, i at the first token of an element
ParseElems(ts, i, acc) ==
    LET e == ParseValue(ts, i)
    IN  IF ~e.ok THEN ParseFail
        ELSE LET j == SkipWS(ts, e.pos)
             IN  IF j > Len(ts) THEN ParseFail
                 ELSE IF ts[j] = RBracket THEN ParseOk(List(Append(acc, e.val)), j + 1)
                 ELSE IF ts[j] = Comma THEN ParseElems(ts, j + 1, Append(acc, e.val))
                 ELSE ParseFail

\* members of an object, i at or before the opening quote of a key; a
\* repeated key keeps its last value
ParseMembers(ts, i, acc) ==
    LET q == SkipWS(ts, i)
    IN  IF q > Len(ts) \/ ts[q] # Quote THEN ParseFail
        ELSE LET key == ParseString(ts, q + 1, <<>>)
             IN  IF ~key.ok THEN ParseFail
                 ELSE LET c == SkipWS(ts, key.pos)
                      IN  IF c > Len(ts) \/ ts[c] # Colon THEN ParseFail
                          ELSE LET m == ParseValue(ts, c + 1)
                               IN  IF ~m.ok THEN ParseFail
                                   ELSE LET j == SkipWS(ts, m.pos)
                                            d == (key.val.s :> m.val) @@ acc
                                        IN  IF j > Len(ts) THEN ParseFail
                                            ELSE IF ts[j] = RBrace THEN ParseOk(Dict(d), j + 1)
                                            ELSE IF ts[j] = Comma THEN ParseMembers(ts, j + 1, d)
                                            ELSE ParseFail

ParseValue(ts, i0) ==
    LET i == SkipWS(ts, i0)
    IN  IF i > Len(ts) THEN ParseFail
        ELSE LET tk == ts[i]
             IN  CASE tk = Quote -> ParseString(ts, i + 1, <<>>)
                   [] tk = LBracket ->
                        LET j == SkipWS(ts, i + 1)
                        IN  IF j <= Len(ts) /\ ts[j] = RBracket
                            THEN ParseOk(List(<<>>), j + 1)
                            ELSE ParseElems(ts, i + 1, <<>>)
                   [] tk = LBrace ->
                        LET j == SkipWS(ts, i + 1)
                        IN  IF j <= Len(ts) /\ ts[j] = RBrace
                            THEN ParseOk(EmptyDict, j + 1)
                            ELSE ParseMembers(ts, i + 1, <<>>)
                   [] tk.k = "n" -> ParseOk(Num(tk.n), i + 1)
                   [] tk = Word("null") -> ParseOk(None, i + 1)
                   [] tk = Word("true") -> ParseOk(Bool(TRUE), i + 1)
                   [] tk = Word("false") -> ParseOk(Bool(FALSE), i + 1)
                   [] OTHER -> ParseFail

\* json.loads(text): [ok, val]; ok = FALSE stands for json.JSONDecodeError
\* (also raised for data after the value)
Loads(ts) ==
    LET r == ParseValue(ts, 1)
    IN  IF r.ok /\ SkipWS(ts, r.pos) > Len(ts) THEN r ELSE ParseFail

(***************************************************************************)
(* str operations on token and atom sequences                              *)
(***************************************************************************)
RECURSIVE LStrip(_)
LStrip(ts) == IF ts # <<>> /\ ts[1] = WS THEN LStrip(Tail(ts)) ELSE ts

RECURSIVE RStrip(_)
RStrip(ts) ==
    IF ts # <<>> /\ ts[Len(ts)] = WS THEN RStrip(SubSeq(ts, 1, Len(ts) - 1)) ELSE ts

\* str.strip()
Strip(ts) == RStrip(LStrip(ts))

\* index of the first occurrence of tk in ts at or after i, Len(ts) + 1 if none
RECURSIVE IndexFrom(_, _, _)
IndexFrom(ts, tk, i) ==
    IF i > Len(ts) THEN Len(ts) + 1
    ELSE IF ts[i] = tk THEN i
    ELSE IndexFrom(ts, tk, i + 1)

\* content.split(fence)[1] for a content that contains the fence: the text
\* between the first fence and the next one (or the end)
SplitSecond(ts, tk) ==
    LET f1 == IndexFrom(ts, tk, 1)
        f2 == IndexFrom(ts, tk, f1 + 1)
    IN  SubSeq(ts, f1 + 1, f2 - 1)

StartsWith(ts, tk) == ts # <<>> /\ ts[1] = tk

\* needle in hay, for two sequences
Contains(hay, needle) ==
    \E i \in 0..(Len(hay) - Len(needle)) :
        \A j \in 1..Len(needle) : hay[i + j] = needle[j]

\* str.lower() of one atom: the atoms of the model that have capitals
LowerAtom(a) ==
    CASE a = "Billing" -> "billing"
      [] a = "Staging" -> "staging"
      [] a = "Vector" -> "vector"
      [] a = "Search_Docs" -> "search_docs"
      [] a = "Exit" -> "exit"
      [] a = "QUIT" -> "quit"
      [] OTHER -> a

Lower(atoms) == [i \in 1..Len(atoms) |-> LowerAtom(atoms[i])]

\* str(v) of a value inside an f-string
StrOf(v) ==
    CASE v.t = "str" -> v.s
      [] v.t = "num" -> <<ToString(v.n)>>
      [] v.t = "none" -> <<"None">>
      [] v.t = "bool" -> <<IF v.b THEN "True" ELSE "False">>
      [] OTHER -> <<"<repr>">>

(***************************************************************************)
(* Exceptions and backend outcomes                                         *)
(***************************************************************************)
Exc(cls, msg) == [cls |-> cls, msg |-> msg]
NoExc == Exc("", <<>>)

\* the classes an exception class is an instance of (Python's hierarchy)
Bases(cls) ==
    CASE cls = "ConnectionError" -> {"ConnectionError", "OSError", "Exception"}
      [] cls = "TimeoutError" -> {"TimeoutError", "OSError", "Exception"}
      [] cls = "AttributeError" -> {"AttributeError", "Exception"}
      [] cls = "APIError" -> {"APIError", "Exception"}
      [] cls = "KeyboardInterrupt" -> {"KeyboardInterrupt", "BaseException"}
      [] OTHER -> {cls, "Exception"}

IsInstance(exc, cls) == cls \in Bases(exc.cls)

\* what a call did: its effects in order (random draws, sleeps, the lookup),
\* then a return value or an exception
Return(v, effects) == [raised |-> FALSE, val |-> v, exc |-> NoExc, effects |-> effects]
Raise(e, effects) == [raised |-> TRUE, val |-> None, exc |-> e, effects |-> effects]

\* the effects of a backend call: random.random() < rate evaluated (n is 1
\* when it held, the fault fired), random.randint returning n, time.sleep of
\* ms milliseconds, and the lookup in the dataset (n is top_k for the
\* collection query, 0 otherwise)
Drew(u, rate) == [e |-> "random", n |-> IF u < rate THEN 1 ELSE 0]
DrewInt(n) == [e |-> "randint", n |-> n]
Slept(ms) == [e |-> "sleep", n |-> ms]
Looked(n) == [e |-> "lookup", n |-> n]

\* 'int' object has no attribute 'lower' / 'get'
NoAttribute(v, attr) == Exc("AttributeError", <<"object has no attribute ", attr>>)

(***************************************************************************)
(* Config (devhub/config.py): latencies in ms, rates in percent, distances *)
(* in hundredths                                                           *)
(***************************************************************************)
VECTOR_DB_LATENCY_MIN == 50
VECTOR_DB_LATENCY_MAX == 200
VECTOR_DB_SLOW_QUERY_LATENCY == 3000
TEAM_DB_LATENCY_MIN == 20
TEAM_DB_LATENCY_MAX == 100
STATUS_API_LATENCY_MIN == 30
STATUS_API_LATENCY_MAX == 150
STATUS_API_TIMEOUT_LATENCY == 5000
VECTOR_DB_FAILURE_RATE == 5
VECTOR_DB_SLOW_QUERY_RATE == 10
VECTOR_DB_LOW_SIMILARITY_RATE == 15
TEAM_DB_STALE_DATA_RATE == 10
STATUS_API_TIMEOUT_RATE == 2
LOW_SIMILARITY_THRESHOLD == 50

\* the penalty of vector_db.py line 133, d + 0.5
LOW_SIMILARITY_PENALTY == 50
\* top_k of VectorDB.search
TOP_K == 3

\* random.random() in percent: one value below every configured rate, one
\* above every configured rate
RandomDraws == {0, 50}

\* the share of its range random.randint lands on, in percent
RandIntDraws == {0}

\* the draws one backend call consumes: up to three random.random() and one
\* random.randint
Rnd(u1, u2, u3, ri) == [u1 |-> u1, u2 |-> u2, u3 |-> u3, ri |-> ri]
RandomSource ==
    {Rnd(a, b, c, r) : a \in RandomDraws, b \in RandomDraws, c \in RandomDraws,
                       r \in RandIntDraws}

\* random.randint(lo, hi) from a draw in percent
RandInt(lo, hi, u) == lo + (u * (hi - lo + 1)) \div 100

\* the failure rates as class attributes of Config: the verification scripts
\* assign them at run time (Config.VECTOR_DB_FAILURE_RATE = 0, ... = 1.0)
Rates(failure, slow, low, stale, timeout) ==
    [VECTOR_DB_FAILURE_RATE |-> failure, VECTOR_DB_SLOW_QUERY_RATE |-> slow,
     VECTOR_DB_LOW_SIMILARITY_RATE |-> low, TEAM_DB_STALE_DATA_RATE |-> stale,
     STATUS_API_TIMEOUT_RATE |-> timeout]

\* the class body of Config
DefaultRates ==
    Rates(VECTOR_DB_FAILURE_RATE, VECTOR_DB_SLOW_QUERY_RATE, VECTOR_DB_LOW_SIMILARITY_RATE,
          TEAM_DB_STALE_DATA_RATE, STATUS_API_TIMEOUT_RATE)

VARIABLES
    Config,          \* the failure rates currently set on the Config class
    _collection,     \* VectorDB._collection: the documents upserted at load
    _conn,           \* TeamDB._conn: the teams and owners tables
    _services        \* StatusAPI._services, in insertion order

(***************************************************************************)
(* VectorDB (devhub/services/vector_db.py)                                 *)
(***************************************************************************)
\* the documents loaded by _load_documents; kw stands for the embedding of
\* the content: the atoms a query must share with it to be near
DOCS ==
    << [id |-> "doc-billing-service", title |-> "Billing Service",
        category |-> "service", content |-> "The Billing Service handles ...",
        kw |-> {"billing", "payments"}],
       [id |-> "doc-payments-api", title |-> "Payments API",
        category |-> "api", content |-> "Payments API authentication ...",
        kw |-> {"payments", "authentication"}],
       [id |-> "doc-vector-search", title |-> "Vector Search",
        category |-> "service", content |-> "Vector search indexing ...",
        kw |-> {"vector-search"}],
       [id |-> "doc-oncall", title |-> "On-call",
        category |-> "process", content |-> "On-call rotation ...",
        kw |-> {"oncall"}] >>

\* cosine distance of the collection, in hundredths: 0 for a query that is
\* the content of the document (the same embedding); otherwise the fewer
\* atoms of the query the document shares, the farther
Distance(query, doc) ==
    IF query = <<doc.content>> THEN 0
    ELSE LET shared == Cardinality({i \in 1..Len(query) : LowerAtom(query[i]) \in doc.kw})
         IN  IF shared >= 2 THEN 10 ELSE IF shared = 1 THEN 30 ELSE 70

\* the n nearest of the documents idxs of docs, ascending by distance (ties
\* in insertion order)
RECURSIVE Nearest(_, _, _, _)
Nearest(docs, query, idxs, n) ==
    IF n = 0 \/ idxs = {} THEN <<>>
    ELSE LET best == CHOOSE i \in idxs : \A j \in idxs :
                        \/ Distance(query, docs[i]) < Distance(query, docs[j])
                        \/ /\ Distance(query, docs[i]) = Distance(query, docs[j])
                           /\ i <= j
         IN  <<best>> \o Nearest(docs, query, idxs \ {best}, n - 1)

\* the result of the collection for the hits (indexes into docs): one list
\* per query text
QueryResults(docs, query, hits) ==
    [documents |-> << [i \in 1..Len(hits) |-> S(docs[hits[i]].content)] >>,
     metadatas |-> << [i \in 1..Len(hits) |->
                        Dict(K("id") :> S(docs[hits[i]].id)
                             @@ K("title") :> S(docs[hits[i]].title)
                             @@ K("category") :> S(docs[hits[i]].category))] >>,
     distances |-> << [i \in 1..Len(hits) |-> Distance(query, docs[hits[i]])] >>]

\* self._collection.query(query_texts=[query], n_results=top_k, include=...)
CollectionQuery(query, top_k) ==
    QueryResults(_collection, query, Nearest(_collection, query, 1..Len(_collection), top_k))

\* the penalty turned into a similarity: distances = [1.0 - d for d in ...]
InflateMirrored(distances) == [i \in 1..Len(distances) |-> 100 - distances[i]]

\* the low-similarity fault: distances = [d + 0.5 for d in distances]
Inflate(distances) == [i \in 1..Len(distances) |-> distances[i] + LOW_SIMILARITY_PENALTY]

\* results[key][0] if results[key] else []
FirstOrEmpty(lists) == IF lists # <<>> THEN lists[1] ELSE <<>>

Nums(ns) == [i \in 1..Len(ns) |-> Num(ns[i])]

\* lines 129-142 of search: the low-similarity draw and the returned dict;
\* latency_ms is the time slept, the least the elapsed wall time can be
SearchReturn(results, low, slept, effects) ==
    Return(Dict(K("documents") :> List(FirstOrEmpty(results.documents))
                @@ K("metadatas") :> List(FirstOrEmpty(results.metadatas))
                @@ K("distances") :>
                   List(Nums(IF low THEN Inflate(FirstOrEmpty(results.distances))
                             ELSE FirstOrEmpty(results.distances)))
                @@ K("latency_ms") :> Num(slept)),
           effects)

\* the normal latency slept after the slow one too (an if without its else)
SearchLatencyNoElse(u, ri) ==
    IF u < Config.VECTOR_DB_SLOW_QUERY_RATE
    THEN <<Drew(u, Config.VECTOR_DB_SLOW_QUERY_RATE), Slept(VECTOR_DB_SLOW_QUERY_LATENCY),
           DrewInt(RandInt(VECTOR_DB_LATENCY_MIN, VECTOR_DB_LATENCY_MAX, ri)),
           Slept(RandInt(VECTOR_DB_LATENCY_MIN, VECTOR_DB_LATENCY_MAX, ri))>>
    ELSE <<Drew(u, Config.VECTOR_DB_SLOW_QUERY_RATE),
           DrewInt(RandInt(VECTOR_DB_LATENCY_MIN, VECTOR_DB_LATENCY_MAX, ri)),
           Slept(RandInt(VECTOR_DB_LATENCY_MIN, VECTOR_DB_LATENCY_MAX, ri))>>

\* lines 111-120 of search: the slow-query draw u and the sleep that follows
SearchLatency(u, ri) ==
    IF u < Config.VECTOR_DB_SLOW_QUERY_RATE
    THEN <<Drew(u, Config.VECTOR_DB_SLOW_QUERY_RATE), Slept(VECTOR_DB_SLOW_QUERY_LATENCY)>>
    ELSE <<Drew(u, Config.VECTOR_DB_SLOW_QUERY_RATE),
           DrewInt(RandInt(VECTOR_DB_LATENCY_MIN, VECTOR_DB_LATENCY_MAX, ri)),
           Slept(RandInt(VECTOR_DB_LATENCY_MIN, VECTOR_DB_LATENCY_MAX, ri))>>

\* the low-similarity fault fired when the draw is at most the rate
SearchAfterLatencyAtMost(query, top_k, rnd, latency) ==
    SearchReturn(CollectionQuery(query.s, top_k),
                 rnd.u3 <= Config.VECTOR_DB_LOW_SIMILARITY_RATE,
                 latency[Len(latency)].n,
                 <<Drew(rnd.u1, Config.VECTOR_DB_FAILURE_RATE)>> \o latency
                 \o <<Looked(top_k), Drew(rnd.u3, Config.VECTOR_DB_LOW_SIMILARITY_RATE)>>)

\* lines 111-142 of search, latency being the draws and the sleep made
SearchAfterLatency(query, top_k, rnd, latency) ==
    SearchReturn(CollectionQuery(query.s, top_k),
                 rnd.u3 < Config.VECTOR_DB_LOW_SIMILARITY_RATE,
                 latency[Len(latency)].n,
                 <<Drew(rnd.u1, Config.VECTOR_DB_FAILURE_RATE)>> \o latency
                 \o <<Looked(top_k), Drew(rnd.u3, Config.VECTOR_DB_LOW_SIMILARITY_RATE)>>)

\* search with the latency simulated before the connection failure
VectorDB_searchLatencyFirst(query, top_k, rnd) ==
    IF rnd.u1 < Config.VECTOR_DB_FAILURE_RATE
    THEN Raise(Exc("ConnectionError", <<"VectorDB connection failed: ECONNREFUSED">>),
               SearchLatency(rnd.u2, rnd.ri) \o <<Drew(rnd.u1, Config.VECTOR_DB_FAILURE_RATE)>>)
    ELSE SearchAfterLatency(query, top_k, rnd, SearchLatency(rnd.u2, rnd.ri))

\* VectorDB.search(query, top_k), query a str
VectorDB_search(query, top_k, rnd) ==
    IF rnd.u1 < Config.VECTOR_DB_FAILURE_RATE
    THEN Raise(Exc("ConnectionError", <<"VectorDB connection failed: ECONNREFUSED">>),
               <<Drew(rnd.u1, Config.VECTOR_DB_FAILURE_RATE)>>)
    ELSE SearchAfterLatency(query, top_k, rnd, SearchLatency(rnd.u2, rnd.ri))

(***************************************************************************)
(* TeamDB (devhub/services/team_db.py)                                     *)
(***************************************************************************)
\* rows of the teams and owners tables after _load_data; services holds the
\* json.dumps text of the owner's service list, is_active 1 or 0
TEAMS ==
    << [id |-> "team-payments", name |-> "Payments Team", slack_channel |-> "#payments-support"],
       [id |-> "team-data", name |-> "Data Platform Team", slack_channel |-> "#data-platform"] >>

\* services: one sequence of atoms per service name
OwnerRow(id, name, email, slack, team_id, services, active) ==
    [id |-> id, name |-> name, email |-> email, slack_handle |-> slack,
     team_id |-> team_id,
     services |-> Dumps(List([i \in 1..Len(services) |-> Str(services[i])])),
     is_active |-> IF active THEN 1 ELSE 0]

OWNERS ==
    << OwnerRow("owner-1", "Sarah Chen", "sarah.chen@devhub.example", "@sarah.chen",
                "team-payments", << <<"billing">>, <<"payments", "-api">> >>, TRUE),
       OwnerRow("owner-2", "Priya Patel", "priya.patel@devhub.example", "@priya.p",
                "team-data", << <<"etl">> >>, FALSE),
       OwnerRow("owner-3", "David Kim", "david.kim@devhub.example", "@david.kim",
                "team-data", << <<"vector", "-search">>, <<"etl">> >>, FALSE),
       OwnerRow("owner-4", "Emily Johnson", "emily.johnson@devhub.example", "@emily.j",
                "team-data", << <<"vector", "-search">>, <<"embeddings">> >>, TRUE),
       OwnerRow("owner-5", "Marcus Webb", "marcus.webb@devhub.example", "@marcus.w",
                "team-payments", << <<"payments", "-api">>, <<"checkout">> >>, TRUE) >>

\* ascending order of the owner names (ORDER BY o.name ASC)
NameOrder == <<"David Kim", "Emily Johnson", "Marcus Webb", "Priya Patel", "Sarah Chen">>
NameRank(name) == CHOOSE i \in 1..Len(NameOrder) : NameOrder[i] = name

\* text LIKE pattern, both sequences of atoms: % in the pattern matches any
\* run of atoms (no pattern of the model holds the one-character wildcard _)
RECURSIVE LikeMatch(_, _)
LikeMatch(text, pattern) ==
    IF pattern = <<>> THEN text = <<>>
    ELSE IF pattern[1] = "%"
    THEN \/ LikeMatch(text, Tail(pattern))
         \/ text # <<>> /\ LikeMatch(Tail(text), pattern)
    ELSE /\ text # <<>>
         /\ text[1] = pattern[1]
         /\ LikeMatch(Tail(text), Tail(pattern))

\* LOWER(text) LIKE ?, the parameter being f"%{term}%"
Like(text, term) ==
    LikeMatch([i \in 1..Len(text) |-> LowerAtom(TokAtom(text[i]))],
              <<"%">> \o term \o <<"%">>)

\* WHERE LOWER(o.services) LIKE ?, on the owners joined with their team
MatchingRows(owners, teams, term) ==
    {i \in 1..Len(owners) :
        /\ \E t \in 1..Len(teams) : teams[t].id = owners[i].team_id
        /\ Like(owners[i].services, term)}

\* ORDER BY o.name ASC alone
FirstRowByName(owners, rows) ==
    CHOOSE i \in rows : \A j \in rows :
        NameRank(owners[i].name) <= NameRank(owners[j].name)

\* ORDER BY o.is_active DESC, o.name ASC LIMIT 1
FirstRow(owners, rows) ==
    CHOOSE i \in rows : \A j \in rows :
        \/ owners[i].is_active > owners[j].is_active
        \/ /\ owners[i].is_active = owners[j].is_active
           /\ NameRank(owners[i].name) <= NameRank(owners[j].name)

\* SELECT o.*, t.name as team_name, t.slack_channel as team_slack
JoinedRow(owner, team) ==
    [o |-> owner, team_name |-> team.name, team_slack |-> team.slack_channel]

TeamOf(teams, owner) == teams[CHOOSE t \in 1..Len(teams) : teams[t].id = owner.team_id]

FetchOne(owners, teams, rows) ==
    IF rows = {} THEN <<>>
    ELSE << JoinedRow(owners[FirstRow(owners, rows)],
                      TeamOf(teams, owners[FirstRow(owners, rows)])) >>

\* the SELECT of find_owner and cursor.fetchone(): <<row>>, or <<>> for None
SelectOwner(term) == FetchOne(_conn.owners, _conn.teams,
                              MatchingRows(_conn.owners, _conn.teams, term))

\* the stale answer taken for an owner without a team: team None on a flip
FoundOwnerStaleNoTeam(r, flip, slept, effects) ==
    Return(Dict(K("found") :> Bool(TRUE)
                @@ K("owner") :>
                   Dict(K("id") :> S(r.o.id)
                        @@ K("name") :> S(r.o.name)
                        @@ K("email") :> S(r.o.email)
                        @@ K("slack_handle") :> S(r.o.slack_handle)
                        @@ K("services") :> Loads(r.o.services).val
                        @@ K("is_active") :>
                           Bool(IF flip THEN ~(r.o.is_active # 0) ELSE r.o.is_active # 0))
                @@ K("team") :>
                   (IF flip THEN None
                    ELSE Dict(K("id") :> S(r.o.team_id)
                              @@ K("name") :> S(r.team_name)
                              @@ K("slack_channel") :> S(r.team_slack)))
                @@ K("latency_ms") :> Num(slept)),
           effects)

\* lines 159-196 of find_owner: the dicts built from the row, and the flip
FoundOwner(r, flip, slept, effects) ==
    Return(Dict(K("found") :> Bool(TRUE)
                @@ K("owner") :>
                   Dict(K("id") :> S(r.o.id)
                        @@ K("name") :> S(r.o.name)
                        @@ K("email") :> S(r.o.email)
                        @@ K("slack_handle") :> S(r.o.slack_handle)
                        @@ K("services") :> Loads(r.o.services).val
                        @@ K("is_active") :>
                           Bool(IF flip THEN ~(r.o.is_active # 0) ELSE r.o.is_active # 0))
                @@ K("team") :>
                   Dict(K("id") :> S(r.o.team_id)
                        @@ K("name") :> S(r.team_name)
                        @@ K("slack_channel") :> S(r.team_slack))
                @@ K("latency_ms") :> Num(slept)),
           effects)

\* u is the draw of line 187, made only when a row was fetched
OwnerResult(row, u, flip, slept) ==
    IF row = <<>>
    THEN Return(Dict(K("found") :> Bool(FALSE) @@ K("owner") :> None
                     @@ K("team") :> None @@ K("latency_ms") :> Num(slept)),
                <<DrewInt(slept), Slept(slept), Looked(0)>>)
    ELSE FoundOwner(row[1], flip, slept,
                    <<DrewInt(slept), Slept(slept), Looked(0),
                      Drew(u, Config.TEAM_DB_STALE_DATA_RATE)>>)

\* find_owner after the latency draw, the flag flipped when the draw is at
\* most the rate
FindOwnerAfterSleepAtMost(service_or_topic, u, slept) ==
    IF ~IsStr(service_or_topic)
    THEN Raise(NoAttribute(service_or_topic, "lower"), <<DrewInt(slept), Slept(slept)>>)
    ELSE OwnerResult(SelectOwner(Lower(service_or_topic.s)), u,
                     u <= Config.TEAM_DB_STALE_DATA_RATE, slept)

\* find_owner after the latency draw
FindOwnerAfterSleep(service_or_topic, u, slept) ==
    IF ~IsStr(service_or_topic)
    THEN Raise(NoAttribute(service_or_topic, "lower"), <<DrewInt(slept), Slept(slept)>>)
    ELSE OwnerResult(SelectOwner(Lower(service_or_topic.s)), u,
                     u < Config.TEAM_DB_STALE_DATA_RATE, slept)

\* find_owner with an outage in place of the stale flag: the draw of line
\* 187 made first, and a connection failure raised when it holds
TeamDB_find_ownerUnavailable(service_or_topic, rnd) ==
    IF rnd.u1 < Config.TEAM_DB_STALE_DATA_RATE
    THEN Raise(Exc("ConnectionError", <<"TeamDB connection failed">>),
               <<Drew(rnd.u1, Config.TEAM_DB_STALE_DATA_RATE)>>)
    ELSE FindOwnerAfterSleep(service_or_topic, rnd.u1,
                             RandInt(TEAM_DB_LATENCY_MIN, TEAM_DB_LATENCY_MAX, rnd.ri))

\* TeamDB.find_owner(service_or_topic)
TeamDB_find_owner(service_or_topic, rnd) ==
    FindOwnerAfterSleep(service_or_topic, rnd.u1,
                        RandInt(TEAM_DB_LATENCY_MIN, TEAM_DB_LATENCY_MAX, rnd.ri))

\* the flip of line 189 written back to the row it was read from
FlipStored(conn, rows, flip) ==
    IF rows # {} /\ flip
    THEN [conn EXCEPT !.owners[FirstRow(conn.owners, rows)].is_active = 1 - @]
    ELSE conn

\* the tables after find_owner, rows being the rows its SELECT matched and
\* flip the outcome of line 187: no statement of find_owner writes, and line
\* 189 assigns into the dict built at lines 170-177
TablesAfterFindOwner(conn, rows, flip) == conn

(***************************************************************************)
(* StatusAPI (devhub/services/status_api.py)                               *)
(***************************************************************************)
\* self._services after _load_status, in insertion order; key is name.lower()
SERVICES ==
    << [key |-> <<"payments", "-api">>, name |-> <<"payments", "-api">>,
        status |-> "healthy", uptime_percent |-> 99,
        last_incident |-> None, incident_description |-> None],
       [key |-> <<"staging">>, name |-> <<"staging">>,
        status |-> "degraded", uptime_percent |-> 94,
        last_incident |-> S("2024-01-15"),
        incident_description |-> S("Database connection pool exhaustion")] >>

\* the first index of a non-empty set of indexes
First(idxs) == CHOOSE i \in idxs : \A j \in idxs : i <= j

\* the partial match in one direction only: service_key in name
PartialMatchContainsOnly(services, service_key) ==
    IF \E i \in 1..Len(services) : Contains(services[i].key, service_key)
    THEN First({i \in 1..Len(services) : Contains(services[i].key, service_key)})
    ELSE 0

\* the partial match of check_status, in insertion order; 0 if none
PartialMatch(services, service_key) ==
    IF \E i \in 1..Len(services) :
          \/ Contains(services[i].key, service_key)
          \/ Contains(service_key, services[i].key)
    THEN First({i \in 1..Len(services) :
                   \/ Contains(services[i].key, service_key)
                   \/ Contains(service_key, services[i].key)})
    ELSE 0

\* the lookup of check_status: the exact key, else the partial match
MatchIn(services, service_key) ==
    IF \E i \in 1..Len(services) : services[i].key = service_key
    THEN CHOOSE i \in 1..Len(services) : services[i].key = service_key
    ELSE PartialMatch(services, service_key)

MatchService(service_key) == MatchIn(_services, service_key)

\* lines 97-116 of check_status; m is the index of the matched service or 0
StatusResult(services, m, slept, effects) ==
    IF m = 0
    THEN Return(Dict(K("found") :> Bool(FALSE) @@ K("service") :> None
                     @@ K("latency_ms") :> Num(slept)),
                effects)
    ELSE Return(Dict(K("found") :> Bool(TRUE)
                     @@ K("service") :>
                        Dict(K("name") :> Str(services[m].name)
                             @@ K("status") :> S(services[m].status)
                             @@ K("uptime_percent") :> Num(services[m].uptime_percent)
                             @@ K("last_incident") :> services[m].last_incident
                             @@ K("incident_description") :>
                                services[m].incident_description)
                     @@ K("latency_ms") :> Num(slept)),
                effects)

\* check_status after the timeout draw u and the latency draw
CheckStatusAfterSleep(service_name, u, slept) ==
    IF ~IsStr(service_name)
    THEN Raise(NoAttribute(service_name, "lower"),
               <<Drew(u, Config.STATUS_API_TIMEOUT_RATE), DrewInt(slept), Slept(slept)>>)
    ELSE StatusResult(_services, MatchService(Lower(service_name.s)), slept,
                      <<Drew(u, Config.STATUS_API_TIMEOUT_RATE), DrewInt(slept), Slept(slept),
                        Looked(0)>>)

\* check_status raising as soon as the timeout draw holds, the sleep of line
\* 73 left out
StatusAPI_check_statusNoWait(service_name, rnd) ==
    IF rnd.u1 < Config.STATUS_API_TIMEOUT_RATE
    THEN Raise(Exc("TimeoutError",
                   <<"StatusAPI timeout: ">> \o StrOf(service_name)
                   \o <<" check exceeded 5s">>),
               <<Drew(rnd.u1, Config.STATUS_API_TIMEOUT_RATE)>>)
    ELSE CheckStatusAfterSleep(service_name, rnd.u1,
                               RandInt(STATUS_API_LATENCY_MIN, STATUS_API_LATENCY_MAX, rnd.ri))

\* StatusAPI.check_status(service_name)
StatusAPI_check_status(service_name, rnd) ==
    IF rnd.u1 < Config.STATUS_API_TIMEOUT_RATE
    THEN Raise(Exc("TimeoutError",
                   <<"StatusAPI timeout: ">> \o StrOf(service_name)
                   \o <<" check exceeded 5s">>),
               <<Drew(rnd.u1, Config.STATUS_API_TIMEOUT_RATE), Slept(STATUS_API_TIMEOUT_LATENCY)>>)
    ELSE CheckStatusAfterSleep(service_name, rnd.u1,
                               RandInt(STATUS_API_LATENCY_MIN, STATUS_API_LATENCY_MAX, rnd.ri))

(***************************************************************************)
(* DevHubAgent (devhub/agent.py)                                           *)
(***************************************************************************)
\* message.content of a completion: a text, or None
Text(ts) == [t |-> "text", toks |-> ts]

\* lines 137-144 of _plan_tools: strip, and unwrap a Markdown code block
PlanContent(ts) ==
    LET content == Strip(ts)
    IN  IF StartsWith(content, Fence)
        THEN LET inner == SplitSecond(content, Fence)
             IN  Strip(IF StartsWith(inner, Word("json")) THEN Tail(inner) ELSE inner)
        ELSE content

\* _plan_tools with a parsed value that is not a list taken as a single call
PlanToolsWrapsNonList(completion) ==
    IF completion.raised THEN Raise(completion.exc, <<>>)
    ELSE IF completion.val = None THEN Raise(NoAttribute(None, "strip"), <<>>)
    ELSE LET tools == Loads(PlanContent(completion.val.toks))
         IN  IF ~tools.ok THEN Return(<<>>, <<>>)
             ELSE IF tools.val.t # "list" THEN Return(<<tools.val>>, <<>>)
             ELSE Return(tools.val.items, <<>>)

\* _plan_tools, given what the completion call did: the list of tool calls
\* (a sequence of values) or the exception that leaves it
PlanTools(completion) ==
    IF completion.raised THEN Raise(completion.exc, <<>>)
    ELSE IF completion.val = None THEN Raise(NoAttribute(None, "strip"), <<>>)
    ELSE LET tools == Loads(PlanContent(completion.val.toks))
         IN  IF ~tools.ok THEN Return(<<>>, <<>>)
             ELSE IF tools.val.t # "list" THEN Return(<<>>, <<>>)
             ELSE Return(tools.val.items, <<>>)

\* result[key] = v
SetItem(dict, key, v) == Dict((key :> v) @@ dict.d)

\* the except clauses without the final "except Exception"
ExceptClausesNoCatchAll(result, e) ==
    IF IsInstance(e, "ConnectionError")
    THEN [result |-> SetItem(result, K("error"), Str(<<"Connection failed: ">> \o e.msg)),
          escaped |-> NoExc]
    ELSE IF IsInstance(e, "TimeoutError")
    THEN [result |-> SetItem(result, K("error"), Str(<<"Timeout: ">> \o e.msg)),
          escaped |-> NoExc]
    ELSE [result |-> result, escaped |-> e]

\* the except clauses with "except Exception" moved to the front
ExceptClausesCatchAllFirst(result, e) ==
    IF IsInstance(e, "Exception")
    THEN [result |-> SetItem(result, K("error"), Str(<<"Error: ">> \o e.msg)),
          escaped |-> NoExc]
    ELSE IF IsInstance(e, "ConnectionError")
    THEN [result |-> SetItem(result, K("error"), Str(<<"Connection failed: ">> \o e.msg)),
          escaped |-> NoExc]
    ELSE IF IsInstance(e, "TimeoutError")
    THEN [result |-> SetItem(result, K("error"), Str(<<"Timeout: ">> \o e.msg)),
          escaped |-> NoExc]
    ELSE [result |-> result, escaped |-> e]

\* the except clauses of _execute_tool, in their order: the result with its
\* error set, or the exception again when no clause takes it
ExceptClauses(result, e) ==
    IF IsInstance(e, "ConnectionError")
    THEN [result |-> SetItem(result, K("error"), Str(<<"Connection failed: ">> \o e.msg)),
          escaped |-> NoExc]
    ELSE IF IsInstance(e, "TimeoutError")
    THEN [result |-> SetItem(result, K("error"), Str(<<"Timeout: ">> \o e.msg)),
          escaped |-> NoExc]
    ELSE IF IsInstance(e, "Exception")
    THEN [result |-> SetItem(result, K("error"), Str(<<"Error: ">> \o e.msg)),
          escaped |-> NoExc]
    ELSE [result |-> result, escaped |-> e]

\* the data _execute_tool stores for a search: lines 177-182
SearchData(data) ==
    Dict(K("documents") :> data.d[K("documents")]
         @@ K("metadatas") :> data.d[K("metadatas")]
         @@ K("distances") :> data.d[K("distances")]
         @@ K("latency_ms") :> data.d[K("latency_ms")])

ToolData(backend, data) == IF backend = "vector_db.search" THEN SearchData(data) ELSE data

Called(backend, arg, out) == <<[backend |-> backend, arg |-> arg, out |-> out]>>

\* the backend call with result["success"] = True moved before it
InvokeSuccessFirst(result, backend, arg, out) ==
    IF out.raised
    THEN ExceptClauses(SetItem(result, K("success"), Bool(TRUE)), out.exc)
         @@ [calls |-> Called(backend, arg, out)]
    ELSE [result |-> SetItem(SetItem(result, K("success"), Bool(TRUE)),
                             K("data"), ToolData(backend, out.val)),
          escaped |-> NoExc, calls |-> Called(backend, arg, out)]

\* the backend call made a second time when the first one raised
InvokeRetried(result, backend, arg, out) ==
    IF out.raised
    THEN ExceptClauses(result, out.exc)
         @@ [calls |-> Called(backend, arg, out) \o Called(backend, arg, out)]
    ELSE [result |-> SetItem(SetItem(result, K("success"), Bool(TRUE)),
                             K("data"), ToolData(backend, out.val)),
          escaped |-> NoExc, calls |-> Called(backend, arg, out)]

\* a backend call of _execute_tool, out being what the backend did, and what
\* follows it in the try block
Invoke(result, backend, arg, out) ==
    IF out.raised
    THEN ExceptClauses(result, out.exc) @@ [calls |-> Called(backend, arg, out)]
    ELSE [result |-> SetItem(SetItem(result, K("success"), Bool(TRUE)),
                             K("data"), ToolData(backend, out.val)),
          escaped |-> NoExc, calls |-> Called(backend, arg, out)]

\* the dispatch comparison made case-insensitive
IsToolAnyCase(tool_name, name) == IsStr(tool_name) /\ Lower(tool_name.s) = <<name>>

\* tool_name == "search_docs" and the like, lines 173, 184, 190
IsTool(tool_name, name) == tool_name = S(name)

\* the initial result with the tool name normalised to lower case
NewResultLowered(tool_name) ==
    Dict(K("tool") :> (IF IsStr(tool_name) THEN Str(Lower(tool_name.s)) ELSE tool_name)
         @@ K("success") :> Bool(FALSE) @@ K("data") :> None @@ K("error") :> None)

\* the result dict of lines 165-170
NewResult(tool_name) ==
    Dict(K("tool") :> tool_name @@ K("success") :> Bool(FALSE)
         @@ K("data") :> None @@ K("error") :> None)

\* args.get(...) on an args that is not a dict: AttributeError in the try
NoGet(result, args) ==
    ExceptClauses(result, NoAttribute(args, "get")) @@ [calls |-> <<>>]

SearchDocs(result, query, rnd) ==
    Invoke(result, "vector_db.search", query, VectorDB_search(query, TOP_K, rnd))

FindOwner(result, service, rnd) ==
    Invoke(result, "team_db.find_owner", service, TeamDB_find_owner(service, rnd))

CheckStatus(result, service, rnd) ==
    Invoke(result, "status_api.check_status", service, StatusAPI_check_status(service, rnd))

\* the try block of _execute_tool with its except clauses
Dispatch(result, tool_name, args, rnd) ==
    CASE IsTool(tool_name, "search_docs") ->
            IF ~IsDict(args) THEN NoGet(result, args)
            ELSE SearchDocs(result, Get(args, K("query"), EmptyStr), rnd)
      [] IsTool(tool_name, "find_owner") ->
            IF ~IsDict(args) THEN NoGet(result, args)
            ELSE FindOwner(result, Get(args, K("service"), EmptyStr), rnd)
      [] IsTool(tool_name, "check_status") ->
            IF ~IsDict(args) THEN NoGet(result, args)
            ELSE CheckStatus(result, Get(args, K("service"), EmptyStr), rnd)
      [] OTHER ->
            [result |-> SetItem(result, K("error"),
                                Str(<<"Unknown tool: ">> \o StrOf(tool_name))),
             escaped |-> NoExc, calls |-> <<>>]

\* _execute_tool(tool_name, args): [result, escaped, calls], calls being the
\* backend invocations it made
ExecuteTool(tool_name, args, rnd) == Dispatch(NewResult(tool_name), tool_name, args, rnd)

\* results_text built from the successful results only
ResultsTextSuccessOnly(tool_results) ==
    Dumps(List(SelectSeq(tool_results, LAMBDA r : r.d[K("success")] = Bool(TRUE))))

\* results_text of _generate_response
ResultsText(tool_results) == Dumps(List(tool_results))

\* the value query returns
QueryResult(response, planned, results) ==
    [response |-> response,
     tools_called |-> [i \in 1..Len(planned) |-> Get(planned[i], K("tool"), None)],
     tool_results |-> results]

(***************************************************************************)
(* Inputs: what the completion capability can answer                       *)
(***************************************************************************)
\* longest list the planning completion returns
MaxPlan == 4
\* longest list that mixes every kind of element
MaxMixed == 3
\* longest list that is also returned inside a code fence
MaxFenced == 1

ToolCall(tool, args) == Dict(K("tool") :> tool @@ K("args") :> args)
Args(key, v) == Dict(K(key) :> v)

\* elements of the planned list: well-formed calls, a call whose argument is
\* not a string, calls with an unknown or missing tool name, a call whose
\* args is not an object, and an element that is not an object
Elems ==
    { ToolCall(S("search_docs"), Args("query", S("payments"))),
      ToolCall(S("find_owner"), Args("service", S("Billing"))),
      ToolCall(S("check_status"), Args("service", S("staging"))),
      ToolCall(S("check_status"), Args("service", Num(5))),
      ToolCall(S("Search_Docs"), Args("query", S("payments"))),
      Dict(K("args") :> Args("service", S("staging"))),
      ToolCall(S("find_owner"), S("billing")),
      Num(1) }

\* the elements of the lists longer than MaxMixed
LongElems ==
    { ToolCall(S("find_owner"), Args("service", S("Billing"))),
      ToolCall(S("check_status"), Args("service", S("staging"))) }

RECURSIVE SeqsUpTo(_, _)
SeqsUpTo(set, n) ==
    IF n = 0 THEN {<<>>}
    ELSE LET shorter == SeqsUpTo(set, n - 1)
         IN  shorter \cup {Append(q, e) : q \in {x \in shorter : Len(x) = n - 1}, e \in set}

\* JSON values that are not lists
NonLists == { ToolCall(S("check_status"), Args("service", S("staging"))),
              S("no tools needed"), Num(0), None }

\* texts that are not JSON
NonJson ==
    { <<>>, <<Word("Sure"), Word("here"), Word("you"), Word("go")>>,
      <<LBracket>>, <<LBracket, NumTok(1), Comma, RBracket>>,
      <<LBracket, RBracket, Word("done")>>,
      <<Fence, Word("json"), WS, Word("Sure"), WS, Fence>>,
      <<Fence, Fence>> }

Fenced(ts) == <<Fence, WS>> \o ts \o <<WS, Fence>>
FencedJson(ts) == <<Fence, Word("json"), WS>> \o ts \o <<WS, Fence, WS>>

PlanLists == SeqsUpTo(Elems, MaxMixed) \cup SeqsUpTo(LongElems, MaxPlan)

PlanTexts ==
    {Dumps(List(q)) : q \in PlanLists}
    \cup {Dumps(v) : v \in NonLists}
    \cup {Fenced(Dumps(v)) : v \in {List(q) : q \in SeqsUpTo(Elems, MaxFenced)} \cup NonLists}
    \cup {FencedJson(Dumps(v)) : v \in {List(q) : q \in SeqsUpTo(Elems, MaxFenced)} \cup NonLists}
    \cup NonJson

APIError == Exc("APIError", <<"Connection error.">>)

\* what the planning completion call can do: raise, answer None, answer a text
PlanCompletions ==
    {Raise(APIError, <<>>), Return(None, <<>>)} \cup {Return(Text(ts), <<>>) : ts \in PlanTexts}

\* what the synthesis completion call can do
SynthesisCompletions ==
    {Raise(APIError, <<>>), Return(Text(<<Word("answer")>>), <<>>)}

(***************************************************************************)
(* query as a state machine                                                *)
(***************************************************************************)
VARIABLES
    pc,              \* "plan", "execute", "done" (returned) or "raised"
    plan_completion, \* what the planning completion call did
    planned_tools,   \* the list _plan_tools returned
    tool_results,    \* the list query appends to
    backend_calls,   \* the backend invocations made so far, in order, each
                     \* with the position (at) of the planned call it served
    completion_calls,\* the completion calls made so far: "plan", "synthesis"
    results_text,    \* the results_text sent for synthesis, <<>> before
    retval,          \* the value query returned
    raised,          \* the exception that left query, NoExc if none
    raised_at,       \* the function it was raised in, "" if none
    last_call,       \* the last call a verification script made on a backend
    prev_call,       \* and the call it made before that one
    tools,           \* a JSON array of tool calls the planning completion answers
    plans,           \* what _plan_tools did for each way the array was written
    callers,         \* the backend call each of two concurrent callers is in
    stdin,           \* what input() has still to read: lines and interrupts
    repl_pc,         \* the statement run_repl is at, "exited" after its break
    user_input,      \* run_repl's user_input
    exception,       \* the exception raised inside the try of run_repl
    agent_queries,   \* the questions agent.query was called with, in order
    console          \* what run_repl printed last

\* the variables of a query, and what the backends hold
query_vars == <<pc, plan_completion, planned_tools, tool_results, backend_calls,
                completion_calls, results_text, retval, raised, raised_at>>
backend_vars == <<Config, _collection, _conn, _services>>
verify_vars == <<last_call, prev_call>>
plan_vars == <<tools, plans>>
repl_vars == <<stdin, repl_pc, user_input, exception, agent_queries, console>>
vars == <<query_vars, backend_vars, verify_vars, plan_vars, callers, repl_vars>>

\* a call made on a backend: the operation, its argument, the rates set on
\* Config when it was made, and what it did
Call(op, arg, rates, out) == [op |-> op, arg |-> arg, rates |-> rates, out |-> out]
NoCall == Call("", None, DefaultRates, Return(None, <<>>))

NoCompletion == Return(None, <<>>)

\* _plan_tools not called yet for a way of writing the array, and for none
NotRun == [raised |-> FALSE, val |-> None, exc |-> NoExc, effects |-> <<"not run">>]
NoPlans == [bare |-> NotRun, fenced |-> NotRun, fenced_json |-> NotRun]
HasRun(plan) == plan.effects = <<>>

\* two callers of the backends; a caller is in no call (idle), past the
\* draws and the sleep that open the call (entered), past the read of the
\* dataset (read), or has its outcome (done); local is what it read
Callers == {1, 2}
Idle == [pc |-> "idle", op |-> "", arg |-> None, rnd |-> Rnd(0, 0, 0, 0),
         local |-> <<>>, out |-> Return(None, <<>>), during |-> FALSE]
NoCallers == [c \in Callers |-> Idle]
NoResult == QueryResult(None, <<>>, <<>>)

\* the agent and its backends constructed, TeamDB from the tables conn, no
\* query started, no call made
ConstructedWith(conn) ==
    /\ pc = "plan"
    /\ plan_completion = NoCompletion
    /\ planned_tools = <<>>
    /\ tool_results = <<>>
    /\ backend_calls = <<>>
    /\ completion_calls = <<>>
    /\ results_text = <<>>
    /\ retval = NoResult
    /\ raised = NoExc
    /\ raised_at = ""
    /\ _collection = DOCS
    /\ _conn = conn
    /\ _services = SERVICES
    /\ last_call = NoCall
    /\ prev_call = NoCall
    /\ repl_pc = "input"
    /\ user_input = <<>>
    /\ exception = NoExc
    /\ agent_queries = <<>>
    /\ console = <<>>

\* TeamDB() on the shipped teams.json
Constructed == ConstructedWith([teams |-> TEAMS, owners |-> OWNERS])

Init ==
    /\ Constructed
    /\ Config = DefaultRates
    /\ tools = <<>>
    /\ plans = NoPlans
    /\ callers = NoCallers
    /\ stdin = <<>>

\* query, line 254: planned_tools = self._plan_tools(user_query)
Plan ==
    /\ pc = "plan"
    /\ completion_calls' = Append(completion_calls, "plan")
    /\ \E completion \in PlanCompletions :
          LET r == PlanTools(completion)
          IN  /\ plan_completion' = completion
              /\ IF r.raised
                 THEN /\ pc' = "raised"
                      /\ raised' = r.exc
                      /\ raised_at' = "_plan_tools"
                      /\ UNCHANGED planned_tools
                 ELSE /\ pc' = "execute"
                      /\ planned_tools' = r.val
                      /\ UNCHANGED <<raised, raised_at>>
    /\ UNCHANGED <<tool_results, backend_calls, results_text, retval>>
    /\ UNCHANGED <<backend_vars, verify_vars, plan_vars, callers, repl_vars>>

\* the end of an iteration: r is what _execute_tool did for the call at
Record(at, r) ==
    /\ backend_calls' = backend_calls \o [i \in 1..Len(r.calls) |-> [at |-> at] @@ r.calls[i]]
    /\ IF r.escaped # NoExc
       THEN /\ pc' = "raised"
            /\ raised' = r.escaped
            /\ raised_at' = "_execute_tool"
            /\ UNCHANGED tool_results
       ELSE /\ tool_results' = Append(tool_results, r.result)
            /\ UNCHANGED <<pc, raised, raised_at>>

\* lines 259-262 for the planned call at position at
Iterate(at, tool_call) ==
    IF ~IsDict(tool_call)
    THEN /\ pc' = "raised"
         /\ raised' = NoAttribute(tool_call, "get")
         /\ raised_at' = "query"
         /\ UNCHANGED <<tool_results, backend_calls>>
    ELSE \E rnd \in RandomSource :
            Record(at, ExecuteTool(Get(tool_call, K("tool"), EmptyStr),
                                   Get(tool_call, K("args"), EmptyDict), rnd))

\* query, lines 258-262: one iteration of the for loop
ExecuteNext ==
    /\ pc = "execute"
    /\ Len(tool_results) < Len(planned_tools)
    /\ Iterate(Len(tool_results) + 1, planned_tools[Len(tool_results) + 1])
    /\ UNCHANGED <<plan_completion, planned_tools, completion_calls, results_text, retval>>
    /\ UNCHANGED <<backend_vars, verify_vars, plan_vars, callers, repl_vars>>

\* _generate_response called inside the for loop, before the last planned
\* call has its result
SynthesizeEarly ==
    /\ pc = "execute"
    /\ Len(tool_results) <= Len(planned_tools)
    /\ results_text' = ResultsText(tool_results)
    /\ completion_calls' = Append(completion_calls, "synthesis")
    /\ \E completion \in SynthesisCompletions :
          IF completion.raised
          THEN /\ pc' = "raised"
               /\ raised' = completion.exc
               /\ raised_at' = "_generate_response"
               /\ UNCHANGED retval
          ELSE /\ pc' = "done"
               /\ retval' = QueryResult(completion.val, planned_tools, tool_results)
               /\ UNCHANGED <<raised, raised_at>>
    /\ UNCHANGED <<plan_completion, planned_tools, tool_results, backend_calls>>
    /\ UNCHANGED <<backend_vars, verify_vars, plan_vars, callers, repl_vars>>

\* query, lines 265-271: _generate_response and the return
Synthesize ==
    /\ pc = "execute"
    /\ Len(tool_results) = Len(planned_tools)
    /\ results_text' = ResultsText(tool_results)
    /\ completion_calls' = Append(completion_calls, "synthesis")
    /\ \E completion \in SynthesisCompletions :
          IF completion.raised
          THEN /\ pc' = "raised"
               /\ raised' = completion.exc
               /\ raised_at' = "_generate_response"
               /\ UNCHANGED retval
          ELSE /\ pc' = "done"
               /\ retval' = QueryResult(completion.val, planned_tools, tool_results)
               /\ UNCHANGED <<raised, raised_at>>
    /\ UNCHANGED <<plan_completion, planned_tools, tool_results, backend_calls>>
    /\ UNCHANGED <<backend_vars, verify_vars, plan_vars, callers, repl_vars>>

Next == Plan \/ ExecuteNext \/ Synthesize

Spec == Init /\ [][Next]_vars

(***************************************************************************)
(* The backends called directly, as the verification scripts do            *)
(* (devhub/scripts/verify_phase4_vectordb.py, verify_phase5_teamdb.py,     *)
(* verify_phase6_statusapi.py): rates are assigned on Config, then search, *)
(* find_owner or check_status is called                                    *)
(***************************************************************************)
\* the rates the scripts set: the class body, every rate 0 (fault off) and
\* every rate 1.0 (fault certain)
Profiles == { DefaultRates, Rates(0, 0, 0, 0, 0), Rates(100, 100, 100, 100, 100) }

\* random.random() at the two ends of [0.0, 1.0), random.randint at the two
\* ends of its range
EndDraws == {0, 99}
\* the draws of a search, and of a call that makes one random.random()
SearchSource ==
    {Rnd(a, b, c, r) : a \in EndDraws, b \in EndDraws, c \in EndDraws, r \in EndDraws}
OneDrawSource == {Rnd(a, 0, 0, 0) : a \in EndDraws}

\* queries: one word, and the content of a document
SearchQueries == { S("payments"), S(DOCS[4].content) }

\* topics: a service name, parts of service names in either case, topics no
\* owner has, JSON punctuation, a LIKE wildcard, and a value that is no str
Topics ==
    { S("billing"), S("Vector"), S("payments"), S("etl"), S("zzz"),
      S("\""), S("%"), Num(5) }

\* service names: a name in another case, a part of a name, a name with
\* more after it, a name no service has, and a value that is no str
ServiceNames ==
    { S("Staging"), S("payments"), Str(<<"staging", "-db">>), S("zzz"), Num(5) }

\* Config.<RATE> = value, for the rates of a profile
Configure ==
    /\ \E rates \in Profiles : rates # Config /\ Config' = rates
    /\ UNCHANGED <<query_vars, _collection, _conn, _services, verify_vars, plan_vars, callers, repl_vars>>

Made(call) ==
    /\ prev_call' = last_call
    /\ last_call' = call

\* vdb.search(query)
VerifySearch ==
    /\ \E query \in SearchQueries, rnd \in SearchSource :
          Made(Call("search", query, Config, VectorDB_search(query, TOP_K, rnd)))
    /\ UNCHANGED <<query_vars, backend_vars, plan_vars, callers, repl_vars>>

\* the rows the SELECT of find_owner matches for a topic
RowsFor(conn, topic) ==
    IF IsStr(topic) THEN MatchingRows(conn.owners, conn.teams, Lower(topic.s)) ELSE {}

\* tdb.find_owner(topic)
VerifyFindOwner ==
    /\ \E topic \in Topics, rnd \in OneDrawSource :
          /\ Made(Call("find_owner", topic, Config, TeamDB_find_owner(topic, rnd)))
          /\ _conn' = TablesAfterFindOwner(_conn, RowsFor(_conn, topic),
                                           rnd.u1 < Config.TEAM_DB_STALE_DATA_RATE)
    /\ UNCHANGED <<query_vars, Config, _collection, _services, plan_vars, callers, repl_vars>>

\* api.check_status(service_name)
VerifyCheckStatus ==
    /\ \E service_name \in ServiceNames, rnd \in OneDrawSource :
          Made(Call("check_status", service_name, Config,
                    StatusAPI_check_status(service_name, rnd)))
    /\ UNCHANGED <<query_vars, backend_vars, plan_vars, callers, repl_vars>>

\* the tool calls run one at a time: the three well-formed calls and the
\* unknown tool of verify_tool_execution, and a find_owner whose service is
\* no str
ToolRuns ==
    { ToolCall(S("search_docs"), Args("query", S("payments"))),
      ToolCall(S("find_owner"), Args("service", S("Billing"))),
      ToolCall(S("check_status"), Args("service", S("staging"))),
      ToolCall(S("find_owner"), Args("service", Num(5))),
      ToolCall(S("unknown_tool"), EmptyDict) }

\* agent._execute_tool(tool_name, args)
VerifyExecuteTool ==
    /\ \E tool_call \in ToolRuns, rnd \in OneDrawSource :
          Made(Call("_execute_tool", tool_call, Config,
                    ExecuteTool(Field(tool_call, "tool"), Field(tool_call, "args"), rnd)))
    /\ UNCHANGED <<query_vars, backend_vars, plan_vars, callers, repl_vars>>

VerifyNext ==
    \/ Configure
    \/ VerifySearch
    \/ VerifyFindOwner
    \/ VerifyCheckStatus
    \/ VerifyExecuteTool

BackendSpec == Init /\ [][VerifyNext]_vars

(***************************************************************************)
(* _plan_tools applied to one JSON array of tool calls written three ways: *)
(* bare, inside a code fence, and inside a code fence tagged json          *)
(***************************************************************************)
\* longest array of tool calls
MaxArray == 3

\* the tool calls of the arrays: one per tool, and a search whose query
\* holds the three backticks of a code fence
ArrayElems ==
    { ToolCall(S("search_docs"), Args("query", S("payments"))),
      ToolCall(S("find_owner"), Args("service", S("Billing"))),
      ToolCall(S("check_status"), Args("service", S("staging"))),
      ToolCall(S("search_docs"), Args("query", Str(<<"what does ", "'''", " mean">>))) }

PlanArrays == SeqsUpTo(ArrayElems, MaxArray)

PlanInit ==
    /\ Constructed
    /\ Config = DefaultRates
    /\ tools \in PlanArrays
    /\ plans = NoPlans
    /\ callers = NoCallers
    /\ stdin = <<>>

\* _plan_tools for a completion whose content is the text ts
PlanOf(ts) == PlanTools(Return(Text(ts), <<>>))

\* the completion answers the bare array
PlanBare ==
    /\ ~HasRun(plans.bare)
    /\ plans' = [plans EXCEPT !.bare = PlanOf(Dumps(List(tools)))]
    /\ UNCHANGED <<query_vars, backend_vars, verify_vars, tools, callers, repl_vars>>

\* the completion answers the array inside a code fence
PlanFenced ==
    /\ ~HasRun(plans.fenced)
    /\ plans' = [plans EXCEPT !.fenced = PlanOf(Fenced(Dumps(List(tools))))]
    /\ UNCHANGED <<query_vars, backend_vars, verify_vars, tools, callers, repl_vars>>

\* the completion answers the array inside a code fence tagged json
PlanFencedJson ==
    /\ ~HasRun(plans.fenced_json)
    /\ plans' = [plans EXCEPT !.fenced_json = PlanOf(FencedJson(Dumps(List(tools))))]
    /\ UNCHANGED <<query_vars, backend_vars, verify_vars, tools, callers, repl_vars>>

PlanNext == PlanBare \/ PlanFenced \/ PlanFencedJson

PlanSpec == PlanInit /\ [][PlanNext]_vars

(***************************************************************************)
(* The backends called with every fault forced on or off: each rate of     *)
(* Config assigned 0 or 1.0 before the calls, as verify_failure_injection, *)
(* verify_stale_data_injection and verify_timeout_injection do             *)
(***************************************************************************)
ForcedRates ==
    {Rates(f, s, l, st, t) : f \in {0, 100}, s \in {0, 100}, l \in {0, 100},
                             st \in {0, 100}, t \in {0, 100}}

ForcedInit ==
    /\ Constructed
    /\ Config \in ForcedRates
    /\ tools = <<>>
    /\ plans = NoPlans
    /\ callers = NoCallers
    /\ stdin = <<>>

\* vdb.search("payments")
ForcedSearch ==
    /\ \E rnd \in SearchSource :
          Made(Call("search", S("payments"), Config,
                    VectorDB_search(S("payments"), TOP_K, rnd)))
    /\ UNCHANGED <<query_vars, backend_vars, plan_vars, callers, repl_vars>>

\* tdb.find_owner("billing")
ForcedFindOwner ==
    /\ \E rnd \in OneDrawSource :
          /\ Made(Call("find_owner", S("billing"), Config,
                        TeamDB_find_owner(S("billing"), rnd)))
          /\ _conn' = TablesAfterFindOwner(_conn, RowsFor(_conn, S("billing")),
                                           rnd.u1 < Config.TEAM_DB_STALE_DATA_RATE)
    /\ UNCHANGED <<query_vars, Config, _collection, _services, plan_vars, callers, repl_vars>>

\* api.check_status("staging")
ForcedCheckStatus ==
    /\ \E rnd \in OneDrawSource :
          Made(Call("check_status", S("staging"), Config,
                    StatusAPI_check_status(S("staging"), rnd)))
    /\ UNCHANGED <<query_vars, backend_vars, plan_vars, callers, repl_vars>>

ForcedNext == ForcedSearch \/ ForcedFindOwner \/ ForcedCheckStatus

ForcedSpec == ForcedInit /\ [][ForcedNext]_vars

(***************************************************************************)
(* TeamDB(teams_path) on other files than the shipped one: _load_data       *)
(* inserts what the file holds, the "teams" list may be short or absent,    *)
(* and no statement turns the foreign keys of SQLite on                     *)
(***************************************************************************)
\* the sub-sequences of a sequence
SubSeqs(seq) ==
    { SelectSeq(seq, LAMBDA x : x \in keep) :
        keep \in SUBSET {seq[i] : i \in 1..Len(seq)} }

\* the tables after _load_data of a file with some of the shipped teams and
\* either all the shipped owners or the first two of them
Fixtures ==
    { [teams |-> ts, owners |-> os] :
        ts \in SubSeqs(TEAMS), os \in {OWNERS, SubSeq(OWNERS, 1, 2)} }

FixtureInit ==
    /\ \E conn \in Fixtures : ConstructedWith(conn)
    /\ Config = DefaultRates
    /\ tools = <<>>
    /\ plans = NoPlans
    /\ callers = NoCallers
    /\ stdin = <<>>

\* tdb.find_owner(topic) on the loaded file
FixtureSpec == FixtureInit /\ [][VerifyFindOwner]_vars

(***************************************************************************)
(* run_repl (devhub/devhub.py): the loop that reads a line, leaves on an   *)
(* exit command, and otherwise gives the line to agent.query               *)
(***************************************************************************)
MaxLines == 3

\* what input() meets: a line (its characters as atoms), or Ctrl-C
Line(atoms) == [k |-> "line", s |-> atoms]
Interrupt == [k |-> "interrupt", s |-> <<>>]

\* the three exit commands in some case, with and without blanks around,
\* an empty line and a blank one, a question, a question that holds the
\* word quit, and an interrupt
StreamItems ==
    { Line(<<"QUIT">>), Line(<<"Exit">>), Line(<<" ", "q", " ">>),
      Line(<<>>), Line(<<" ">>),
      Line(<<"who owns billing">>), Line(<<"quit", " ", "now">>),
      Interrupt }

\* the input streams: at most MaxLines items, then end of file
Streams == SeqsUpTo(StreamItems, MaxLines)

\* str.strip() of a line
RECURSIVE LStripLine(_)
LStripLine(atoms) ==
    IF atoms # <<>> /\ atoms[1] = " " THEN LStripLine(Tail(atoms)) ELSE atoms

RECURSIVE RStripLine(_)
RStripLine(atoms) ==
    IF atoms # <<>> /\ atoms[Len(atoms)] = " "
    THEN RStripLine(SubSeq(atoms, 1, Len(atoms) - 1)) ELSE atoms

StripLine(atoms) == RStripLine(LStripLine(atoms))

\* ("quit", "exit", "q", "")
ExitCommands == { <<"quit">>, <<"exit">>, <<"q">>, <<>> }

KeyboardInterrupt == Exc("KeyboardInterrupt", <<>>)
EOFError == Exc("EOFError", <<"EOF when reading a line">>)
TypeError == Exc("TypeError", <<"sequence item 0: expected str instance, NoneType found">>)

\* what agent.query(user_input) can do: return a result with no tool
\* called, return one whose planned call had no "tool" key, raise the error
\* of the completion call, or be interrupted
AgentQueries ==
    { Return(QueryResult(S("answer"), <<>>, <<>>), <<>>),
      Return(QueryResult(S("answer"), << Dict(K("args") :> EmptyDict) >>, <<>>), <<>>),
      Raise(APIError, <<>>),
      Raise(KeyboardInterrupt, <<>>) }

\* print_response(result): ", ".join(result["tools_called"]) raises
\* TypeError on an item that is no str
PrintResponse(result) ==
    IF \E i \in 1..Len(result.tools_called) : ~IsStr(result.tools_called[i])
    THEN Raise(TypeError, <<>>)
    ELSE Return(None, <<>>)

ReplInit ==
    /\ Constructed
    /\ Config = DefaultRates
    /\ tools = <<>>
    /\ plans = NoPlans
    /\ callers = NoCallers
    /\ stdin \in Streams

\* user_input = input().strip(): EOFError at the end of the stream,
\* KeyboardInterrupt on Ctrl-C
ReadLine ==
    /\ repl_pc = "input"
    /\ IF stdin = <<>>
       THEN /\ exception' = EOFError
            /\ repl_pc' = "except"
            /\ UNCHANGED <<stdin, user_input>>
       ELSE /\ stdin' = Tail(stdin)
            /\ IF Head(stdin) = Interrupt
               THEN /\ exception' = KeyboardInterrupt
                    /\ repl_pc' = "except"
                    /\ UNCHANGED user_input
               ELSE /\ user_input' = StripLine(Head(stdin).s)
                    /\ repl_pc' = "check"
                    /\ UNCHANGED exception
    /\ UNCHANGED <<agent_queries, console>>
    /\ UNCHANGED <<query_vars, backend_vars, verify_vars, plan_vars, callers>>

\* if user_input.lower() in ("quit", "exit", "q", ""): continue or break
CheckExit ==
    /\ repl_pc = "check"
    /\ IF Lower(user_input) \in ExitCommands
       THEN IF user_input = <<>>
            THEN repl_pc' = "input" /\ UNCHANGED console
            ELSE repl_pc' = "exited" /\ console' = <<"Goodbye!">>
       ELSE repl_pc' = "query" /\ console' = <<"Thinking...">>
    /\ UNCHANGED <<stdin, user_input, exception, agent_queries>>
    /\ UNCHANGED <<query_vars, backend_vars, verify_vars, plan_vars, callers>>

\* result = agent.query(user_input); print_response(result)
ProcessQuery ==
    /\ repl_pc = "query"
    /\ agent_queries' = Append(agent_queries, user_input)
    /\ \E out \in AgentQueries :
          IF out.raised
          THEN /\ exception' = out.exc
               /\ repl_pc' = "except"
               /\ UNCHANGED console
          ELSE IF PrintResponse(out.val).raised
          THEN /\ exception' = PrintResponse(out.val).exc
               /\ repl_pc' = "except"
               /\ UNCHANGED console
          ELSE /\ repl_pc' = "input"
               /\ console' = out.val.response.s
               /\ UNCHANGED exception
    /\ UNCHANGED <<stdin, user_input>>
    /\ UNCHANGED <<query_vars, backend_vars, verify_vars, plan_vars, callers>>

\* except Exception as e: print the error and go round the loop again
ExceptExceptionLoops(exc) ==
    /\ IsInstance(exc, "Exception")
    /\ repl_pc' = "input"
    /\ console' = <<"Error: ">> \o exc.msg

\* except KeyboardInterrupt: break; except Exception as e: print the error
ExceptClause ==
    /\ repl_pc = "except"
    /\ \/ /\ IsInstance(exception, "KeyboardInterrupt")
          /\ repl_pc' = "exited"
          /\ console' = <<"Interrupted. Goodbye!">>
       \/ /\ ~IsInstance(exception, "KeyboardInterrupt")
          /\ ExceptExceptionLoops(exception)
    /\ exception' = NoExc
    /\ UNCHANGED <<stdin, user_input, agent_queries>>
    /\ UNCHANGED <<query_vars, backend_vars, verify_vars, plan_vars, callers>>

ReplNext == ReadLine \/ CheckExit \/ ProcessQuery \/ ExceptClause

\* run_repl runs on its own thread of control: it takes its next step
\* whenever it has one
ReplSpec == ReplInit /\ [][ReplNext]_vars /\ WF_vars(ReplNext)

(***************************************************************************)
(* Two callers on the same backend instances, their calls interleaved at   *)
(* the statements that read the dataset and that build the result          *)
(***************************************************************************)
\* the calls a caller makes
ConcurrentCalls ==
    { [op |-> "search", arg |-> S("payments")],
      [op |-> "find_owner", arg |-> S("payments")],
      [op |-> "find_owner", arg |-> S("etl")],
      [op |-> "check_status", arg |-> S("staging")] }

\* the draws of a call: three random.random() for a search, one otherwise
CallDraws(op) ==
    IF op = "search" THEN RandomSource ELSE {Rnd(a, 0, 0, 0) : a \in RandomDraws}

\* the exception a call raises before it reads its dataset, NoExc if none:
\* vector_db.py 107-108, status_api.py 71-74
RaisedOnEntry(op, arg, rnd) ==
    IF op = "search" /\ rnd.u1 < Config.VECTOR_DB_FAILURE_RATE
    THEN VectorDB_search(arg, TOP_K, rnd)
    ELSE IF op = "check_status" /\ rnd.u1 < Config.STATUS_API_TIMEOUT_RATE
    THEN StatusAPI_check_status(arg, rnd)
    ELSE Return(None, <<>>)

\* the read of the dataset: the collection query (vector_db.py 123-127),
\* the SELECT and fetchone (team_db.py 143-157), the lookup in _services
\* (status_api.py 84-95)
DatasetRead(op, arg) ==
    CASE op = "search" -> <<CollectionQuery(arg.s, TOP_K)>>
      [] op = "find_owner" -> <<SelectOwner(Lower(arg.s))>>
      [] op = "check_status" -> <<MatchService(Lower(arg.s))>>

\* the rest of the call, on what was read: vector_db.py 129-142, team_db.py
\* 159-196, status_api.py 97-116
ResultFrom(op, rnd, local) ==
    CASE op = "search" ->
            SearchReturn(local[1], rnd.u3 < Config.VECTOR_DB_LOW_SIMILARITY_RATE,
                         SearchLatency(rnd.u2, rnd.ri)[Len(SearchLatency(rnd.u2, rnd.ri))].n,
                         <<>>)
      [] op = "find_owner" ->
            OwnerResult(local[1], rnd.u1, rnd.u1 < Config.TEAM_DB_STALE_DATA_RATE,
                        RandInt(TEAM_DB_LATENCY_MIN, TEAM_DB_LATENCY_MAX, rnd.ri))
      [] op = "check_status" ->
            StatusResult(_services, local[1],
                         RandInt(STATUS_API_LATENCY_MIN, STATUS_API_LATENCY_MAX, rnd.ri), <<>>)

\* the other caller is between its read and its result
MidCall(c) == \E o \in Callers \ {c} : callers[o].pc = "read"

\* a caller calls search, find_owner or check_status: the draws and the
\* sleep before the dataset is read, or the exception raised instead
CallerEnters ==
    /\ \E c \in Callers :
          /\ callers[c].pc = "idle"
          /\ \E call \in ConcurrentCalls : \E rnd \in CallDraws(call.op) :
                callers' = [callers EXCEPT ![c] =
                    [pc |-> IF RaisedOnEntry(call.op, call.arg, rnd).raised
                            THEN "done" ELSE "entered",
                     op |-> call.op, arg |-> call.arg, rnd |-> rnd, local |-> <<>>,
                     out |-> RaisedOnEntry(call.op, call.arg, rnd),
                     during |-> FALSE]]
    /\ UNCHANGED <<query_vars, backend_vars, verify_vars, plan_vars, repl_vars>>

\* the caller reads the dataset
CallerReads ==
    /\ \E c \in Callers :
          /\ callers[c].pc = "entered"
          /\ callers' = [callers EXCEPT ![c].pc = "read",
                                        ![c].local = DatasetRead(callers[c].op, callers[c].arg)]
    /\ UNCHANGED <<query_vars, backend_vars, verify_vars, plan_vars, repl_vars>>

\* the caller builds its result from what it read and returns
CallerReturns ==
    /\ \E c \in Callers :
          /\ callers[c].pc = "read"
          /\ callers' = [callers EXCEPT ![c].pc = "done",
                                        ![c].out = ResultFrom(callers[c].op, callers[c].rnd,
                                                              callers[c].local),
                                        ![c].during = MidCall(c)]
          /\ _conn' = IF callers[c].op = "find_owner"
                      THEN TablesAfterFindOwner(_conn, RowsFor(_conn, callers[c].arg),
                               callers[c].rnd.u1 < Config.TEAM_DB_STALE_DATA_RATE)
                      ELSE _conn
    /\ UNCHANGED <<query_vars, Config, _collection, _services, verify_vars, plan_vars, repl_vars>>

ConcurrentNext == CallerEnters \/ CallerReads \/ CallerReturns

ConcurrentSpec == Init /\ [][ConcurrentNext]_vars

(***************************************************************************)
(* Properties of query                                                     *)
(***************************************************************************)
KnownTools == {S("search_docs"), S("find_owner"), S("check_status")}
ToolNameAt(i) == Get(planned_tools[i], K("tool"), EmptyStr)
AllToolCalls == \A i \in 1..Len(planned_tools) : IsDict(planned_tools[i])
Planned == pc # "plan" /\ raised_at # "_plan_tools"
Stopped == pc \in {"done", "raised"}
RaisedCalls == {j \in 1..Len(backend_calls) : backend_calls[j].out.raised}
Failed(r) == Field(r, "success") = Bool(FALSE)

\* C1: an exception raised by a backend never leaves _execute_tool: the call
\* it was raised in has a result with success = false; and for a plan made of
\* tool calls, once query has stopped every planned call has its result and
\* the synthesis completion was called.
C1_BackendExceptionsBecomeResults ==
    /\ raised_at # "_execute_tool"
    /\ \A j \in RaisedCalls :
          /\ backend_calls[j].at <= Len(tool_results)
          /\ Failed(tool_results[backend_calls[j].at])
    /\ (Planned /\ AllToolCalls /\ Stopped) =>
          /\ Len(tool_results) = Len(planned_tools)
          /\ completion_calls = <<"plan", "synthesis">>

\* a backend raised in a call that is not the last one, the calls after it
\* ran (one of them with success) and query returned
C1_Witness ==
    /\ pc = "done"
    /\ \E j \in RaisedCalls : \E i \in 1..Len(tool_results) :
          /\ backend_calls[j].at < i
          /\ ~Failed(tool_results[i])

\* C2: the results are in the positions of the planned calls: result i has
\* the tool name read from planned call i, and the value query returns holds
\* exactly one result per planned call.
C2_OneResultPerCallInOrder ==
    /\ Len(tool_results) <= Len(planned_tools)
    /\ \A i \in 1..Len(tool_results) :
          /\ IsDict(planned_tools[i])
          /\ Field(tool_results[i], "tool") = ToolNameAt(i)
    /\ pc = "done" =>
          /\ retval.tool_results = tool_results
          /\ Len(retval.tool_results) = Len(planned_tools)

\* query returned three or more results, a failed one before a successful
\* one, for calls whose tool names are not all the same
C2_Witness ==
    /\ pc = "done"
    /\ Len(retval.tool_results) >= 3
    /\ \E i, j \in 1..Len(tool_results) :
          /\ i < j
          /\ Failed(tool_results[i]) /\ ~Failed(tool_results[j])
          /\ ToolNameAt(i) # ToolNameAt(j)
          /\ ToolNameAt(i) = S("Search_Docs")

\* the planning completion returned a text that is no JSON, or the JSON of a
\* value that is not a list, bare or inside a code fence
PlanTextIsNoList ==
    /\ ~plan_completion.raised
    /\ plan_completion.val # None
    /\ plan_completion.val.toks \in
          NonJson \cup {Dumps(v) : v \in NonLists}
          \cup {Fenced(Dumps(v)) : v \in NonLists}
          \cup {FencedJson(Dumps(v)) : v \in NonLists}

\* C3: when the planning text is no JSON or no JSON list, _plan_tools returns
\* the empty list, nothing is raised by planning or execution, and the value
\* query returns has tools_called = [], tool_results = [] and the text the
\* synthesis completion answered.
C3_PlanningFailsSoft ==
    (pc # "plan" /\ PlanTextIsNoList) =>
        /\ planned_tools = <<>>
        /\ raised_at \in {"", "_generate_response"}
        /\ backend_calls = <<>>
        /\ pc = "done" =>
              /\ retval.tools_called = <<>>
              /\ retval.tool_results = <<>>
              /\ retval.response = Text(<<Word("answer")>>)

\* query returned after a planning text that was a JSON object in a fence
C3_Witness ==
    /\ pc = "done"
    /\ PlanTextIsNoList
    /\ plan_completion.val.toks =
          FencedJson(Dumps(ToolCall(S("check_status"), Args("service", S("staging")))))

\* C4: whatever text the planning completion returns, planning and
\* execution raise nothing.
C4_NoTextCrashesPlanningOrExecution ==
    (~plan_completion.raised /\ plan_completion.val # None) =>
        raised_at \notin {"_plan_tools", "query", "_execute_tool"}

\* C5: query raises only when the synthesis completion call failed.
C5_OnlySynthesisFailureIsVisible ==
    pc = "raised" => raised_at = "_generate_response"

\* "Call 1-3 tools maximum", TOOL_PLANNING_PROMPT
MAX_TOOLS == 3

\* C6: _plan_tools returns at most 3 tool calls and a query makes at most 3
\* backend calls.
C6_AtMostThreeToolCalls ==
    /\ Len(planned_tools) <= MAX_TOOLS
    /\ Len(backend_calls) <= MAX_TOOLS

Marker(e) ==
    IF e.cls = "ConnectionError" THEN "Connection failed: "
    ELSE IF e.cls = "TimeoutError" THEN "Timeout: "
    ELSE "Error: "

\* C8: a backend call that raised has a result with success = false, no data
\* and an error made of the marker of its cause and the exception's message;
\* the three markers differ, so the error starts with the timeout marker
\* exactly when the cause was a timeout.
C8_ThreeCausesThreeMarkers ==
    \A j \in RaisedCalls :
        LET c == backend_calls[j]
        IN  /\ c.at <= Len(tool_results)
            /\ Failed(tool_results[c.at])
            /\ Field(tool_results[c.at], "data") = None
            /\ Field(tool_results[c.at], "error") = Str(<<Marker(c.out.exc)>> \o c.out.exc.msg)
            /\ (Head(Field(tool_results[c.at], "error").s) = "Timeout: ")
                  <=> (c.out.exc.cls = "TimeoutError")
            /\ (Head(Field(tool_results[c.at], "error").s) = "Connection failed: ")
                  <=> (c.out.exc.cls = "ConnectionError")

\* one query in which a backend raised for each of the three causes
C8_Witness ==
    /\ \E j \in RaisedCalls : backend_calls[j].out.exc.cls = "ConnectionError"
    /\ \E j \in RaisedCalls : backend_calls[j].out.exc.cls = "TimeoutError"
    /\ \E j \in RaisedCalls : backend_calls[j].out.exc.cls = "AttributeError"

SuccessShape(r) ==
    /\ Field(r, "success") = Bool(TRUE)
    /\ Field(r, "data") # None
    /\ Field(r, "error") = None

FailureShape(r) ==
    /\ Field(r, "success") = Bool(FALSE)
    /\ Field(r, "data") = None
    /\ Field(r, "error").t = "str"
    /\ Field(r, "error").s # <<>>

\* C9: every result is either a success with data and no error, or a failure
\* with no data and a non-empty error message.
C9_TwoResultShapes ==
    \A i \in 1..Len(tool_results) :
        SuccessShape(tool_results[i]) \/ FailureShape(tool_results[i])

\* results of both shapes, the failure one from a backend that raised and
\* one from a call that reached no backend
C9_Witness ==
    /\ \E i \in 1..Len(tool_results) : SuccessShape(tool_results[i])
    /\ \E j \in RaisedCalls : FailureShape(tool_results[backend_calls[j].at])
    /\ \E i \in 1..Len(tool_results) :
          /\ FailureShape(tool_results[i])
          /\ \A j \in 1..Len(backend_calls) : backend_calls[j].at # i

\* C10: the text sent for synthesis is the serialization of the whole result
\* list: read back, it has one result per planned call, in the order of the
\* calls, the failed ones included; and query returns that same list.
C10_SynthesisSeesEveryResult ==
    "synthesis" \in {completion_calls[k] : k \in 1..Len(completion_calls)} =>
        LET sent == Loads(results_text)
        IN  /\ sent.ok
            /\ sent.val = List(tool_results)
            /\ Len(sent.val.items) = Len(planned_tools)
            /\ \A i \in 1..Len(planned_tools) :
                  Field(sent.val.items[i], "tool") = ToolNameAt(i)
            /\ \A j \in RaisedCalls : Failed(sent.val.items[backend_calls[j].at])
            /\ pc = "done" => retval.tool_results = sent.val.items

\* the synthesis text was sent with a failed result before a successful one
C10_Witness ==
    /\ results_text # <<>>
    /\ \E i, j \in 1..Len(tool_results) :
          /\ i < j
          /\ Failed(tool_results[i])
          /\ ~Failed(tool_results[j])

\* the steps of a query, as changes of what it has logged
PlanStep == completion_calls = <<>> /\ completion_calls' = <<"plan">>
ToolStep == backend_calls' # backend_calls \/ tool_results' # tool_results
SynthesisStep == completion_calls' = Append(completion_calls, "synthesis")
CallsOf(i) == {j \in 1..Len(backend_calls) : backend_calls[j].at = i}

\* C11: the phases of a query are strictly ordered and never overlap: the
\* planning call is made before any tool has started; a tool starts only
\* after the planning call has completed and every earlier tool has recorded
\* its result, and records at most its own result; the synthesis call is
\* made only after planning and after the last planned tool has recorded its
\* result, and no tool runs in that step.
C11_PhasesStrictlyOrdered ==
    [][ /\ PlanStep =>
              /\ ~ToolStep
              /\ tool_results = <<>> /\ backend_calls = <<>>
        /\ ToolStep =>
              /\ pc = "execute"
              /\ completion_calls = <<"plan">> /\ completion_calls' = completion_calls
              /\ \A j \in 1..Len(backend_calls) : backend_calls[j].at <= Len(tool_results)
              /\ \A j \in (Len(backend_calls) + 1)..Len(backend_calls') :
                    backend_calls'[j].at = Len(tool_results) + 1
              /\ SubSeq(backend_calls', 1, Len(backend_calls)) = backend_calls
              /\ Len(tool_results') \in {Len(tool_results), Len(tool_results) + 1}
              /\ SubSeq(tool_results', 1, Len(tool_results)) = tool_results
        /\ SynthesisStep =>
              /\ ~ToolStep
              /\ completion_calls = <<"plan">>
              /\ Len(tool_results) = Len(planned_tools)
              /\ \A j \in 1..Len(backend_calls) : backend_calls[j].at <= Len(tool_results)
      ]_vars

\* query returned after three tools ran, each of them on its backend
C11_Witness ==
    /\ pc = "done"
    /\ completion_calls = <<"plan", "synthesis">>
    /\ Len(tool_results) >= 3
    /\ \A i \in 1..Len(tool_results) : CallsOf(i) # {}

\* the planned call i was executed, with a known tool name and an args object
Executed(i) == i <= Len(tool_results)
WellFormed(i) ==
    /\ ToolNameAt(i) \in KnownTools
    /\ IsDict(Get(planned_tools[i], K("args"), EmptyDict))
Count(log, x) == Cardinality({k \in 1..Len(log) : log[k] = x})

\* C12 as stated: every planned call with a known tool name that was
\* executed invoked its backend exactly once; the completion capability was
\* called exactly once for planning and at most once for synthesis.
C12_KnownToolInvokedExactlyOnce ==
    /\ \A i \in 1..Len(tool_results) :
          ToolNameAt(i) \in KnownTools => Cardinality(CallsOf(i)) = 1
    /\ pc # "plan" => Count(completion_calls, "plan") = 1
    /\ Count(completion_calls, "synthesis") <= 1

\* C12 (amended): nothing is retried: no planned call invokes a backend more
\* than once; an executed call invokes its backend exactly once when its tool
\* name is known and its args is an object, also when the invocation raises,
\* and never otherwise; the completion capability is called exactly once for
\* planning and at most once for synthesis.
C12_NothingIsRetried ==
    /\ \A j \in 1..Len(backend_calls) : Cardinality(CallsOf(backend_calls[j].at)) = 1
    /\ \A i \in 1..Len(tool_results) :
          Cardinality(CallsOf(i)) = IF WellFormed(i) THEN 1 ELSE 0
    /\ pc # "plan" => Count(completion_calls, "plan") = 1
    /\ Count(completion_calls, "synthesis") <= 1

\* query returned after a connection failure and a timeout, each of them in
\* the one invocation of its call
C12_Witness ==
    /\ pc = "done"
    /\ \E j, k \in RaisedCalls :
          /\ backend_calls[j].out.exc.cls = "ConnectionError"
          /\ backend_calls[k].out.exc.cls = "TimeoutError"
          /\ Cardinality(CallsOf(backend_calls[j].at)) = 1
          /\ Cardinality(CallsOf(backend_calls[k].at)) = 1

(***************************************************************************)
(* Properties of the backends                                              *)
(***************************************************************************)
\* the calls made on the backends that the state remembers
VerifyCalls == {c \in {last_call, prev_call} : c.op # ""}
Searches == {c \in VerifyCalls : c.op = "search"}
OwnerLookups == {c \in VerifyCalls : c.op = "find_owner"}
Found(c) == ~c.out.raised /\ Field(c.out.val, "found") = Bool(TRUE)
Kinds(c) == [i \in 1..Len(c.out.effects) |-> c.out.effects[i].e]
Fired == [e |-> "random", n |-> 1]
NotFired == [e |-> "random", n |-> 0]
Distances(c) == Field(c.out.val, "distances").items
\* the low-similarity fault fired in the search c: its last draw held
Degraded(c) == ~c.out.raised /\ c.out.effects[Len(c.out.effects)] = Fired

\* C13: with VECTOR_DB_FAILURE_RATE at 1.0, every search raises
\* ConnectionError, and the draw that decided it is all the call did: no
\* sleep, no query of the collection, no other draw.
C13_CertainFailureRaisesAtOnce ==
    \A c \in Searches :
        c.rates.VECTOR_DB_FAILURE_RATE = 100 =>
            /\ c.out.raised
            /\ c.out.exc.cls = "ConnectionError"
            /\ c.out.effects = <<Fired>>

\* two searches in a row at rate 1.0, for different queries
C13_Witness ==
    /\ last_call.op = "search" /\ prev_call.op = "search"
    /\ last_call.arg # prev_call.arg
    /\ last_call.rates.VECTOR_DB_FAILURE_RATE = 100
    /\ prev_call.rates.VECTOR_DB_FAILURE_RATE = 100
    /\ last_call.out.raised /\ prev_call.out.raised

\* C14: when the low-similarity fault fires, every distance of a non-empty
\* result is strictly above LOW_SIMILARITY_THRESHOLD (0.5), whatever the
\* distances of the collection (at least 0) were.
C14_DegradedDistancesAboveThreshold ==
    \A c \in Searches :
        Degraded(c) =>
            \A i \in 1..Len(Distances(c)) : Distances(c)[i].n > LOW_SIMILARITY_THRESHOLD

\* the pairwise order of two lists of numbers is the same
SameOrder(ds, es) ==
    /\ Len(ds) = Len(es)
    /\ \A i, j \in 1..Len(ds) : (ds[i].n < ds[j].n) <=> (es[i].n < es[j].n)

\* C15: two searches for the same query that both returned, the fault having
\* fired in one or both or neither, return the same documents and metadatas
\* in the same order, and distances in the same pairwise order.
C15_DegradationKeepsTheRanking ==
    \A c \in Searches : \A b \in Searches :
        (c.arg = b.arg /\ ~c.out.raised /\ ~b.out.raised) =>
            /\ Field(c.out.val, "documents") = Field(b.out.val, "documents")
            /\ Field(c.out.val, "metadatas") = Field(b.out.val, "metadatas")
            /\ SameOrder(Distances(c), Distances(b))

\* a degraded search after a search of the same query that was not, the
\* result holding two equal distances and a larger one
C15_Witness ==
    /\ last_call.op = "search" /\ prev_call.op = "search"
    /\ last_call.arg = prev_call.arg
    /\ Degraded(last_call)
    /\ ~prev_call.out.raised /\ ~Degraded(prev_call)
    /\ \E i, j, k \in 1..Len(Distances(prev_call)) :
          /\ Distances(prev_call)[i].n = Distances(prev_call)[j].n /\ i # j
          /\ Distances(prev_call)[j].n < Distances(prev_call)[k].n
          /\ Distances(last_call)[k].n # Distances(prev_call)[k].n

\* C16: a search in which the connection failure does not fire makes the
\* slow-query draw and then exactly one sleep before it queries the
\* collection: VECTOR_DB_SLOW_QUERY_LATENCY when the draw fired, otherwise
\* the random.randint drawn between VECTOR_DB_LATENCY_MIN and
\* VECTOR_DB_LATENCY_MAX; a search in which it fires makes no second draw.
C16_OneLatencySleepBeforeRanking ==
    \A c \in Searches :
        /\ c.out.effects[1] = Fired => Len(c.out.effects) = 1
        /\ c.out.effects[1] = NotFired =>
              /\ ~c.out.raised
              /\ c.out.effects[2].e = "random"
              /\ IF c.out.effects[2] = Fired
                 THEN /\ Kinds(c) = <<"random", "random", "sleep", "lookup", "random">>
                      /\ c.out.effects[3].n = VECTOR_DB_SLOW_QUERY_LATENCY
                 ELSE /\ Kinds(c) = <<"random", "random", "randint", "sleep", "lookup", "random">>
                      /\ c.out.effects[4].n = c.out.effects[3].n
                      /\ c.out.effects[4].n >= VECTOR_DB_LATENCY_MIN
                      /\ c.out.effects[4].n <= VECTOR_DB_LATENCY_MAX

\* a slow search after a search with a normal latency above the minimum
C16_Witness ==
    /\ last_call.op = "search" /\ prev_call.op = "search"
    /\ ~last_call.out.raised /\ ~prev_call.out.raised
    /\ last_call.out.effects[2] = Fired
    /\ prev_call.out.effects[2] = NotFired
    /\ prev_call.out.effects[4].n > VECTOR_DB_LATENCY_MIN

\* the owner dict a find_owner call returned, and the row of that owner in
\* a table of owners
Owner(c) == Field(c.out.val, "owner")
RowOf(owners, c) == owners[CHOOSE i \in 1..Len(owners) : S(owners[i].id) = Field(Owner(c), "id")]

\* C17: for a topic that matches an owner, find_owner returns is_active
\* equal to the stored value of the selected owner when
\* TEAM_DB_STALE_DATA_RATE is 0.0, and to its negation when the rate is 1.0.
C17_StalenessFlipsTheFlag ==
    \A c \in OwnerLookups :
        (IsStr(c.arg) /\ RowsFor(_conn, c.arg) # {}) =>
            /\ Found(c)
            /\ c.rates.TEAM_DB_STALE_DATA_RATE = 0 =>
                  Field(Owner(c), "is_active") = Bool(RowOf(_conn.owners, c).is_active = 1)
            /\ c.rates.TEAM_DB_STALE_DATA_RATE = 100 =>
                  Field(Owner(c), "is_active") = Bool(RowOf(_conn.owners, c).is_active # 1)

\* at rate 1.0 an owner stored as inactive was returned as active, after an
\* owner stored as active was returned as active at rate 0.0
C17_Witness ==
    /\ last_call.op = "find_owner" /\ Found(last_call)
    /\ last_call.rates.TEAM_DB_STALE_DATA_RATE = 100
    /\ RowOf(_conn.owners, last_call).is_active = 0
    /\ Field(Owner(last_call), "is_active") = Bool(TRUE)
    /\ prev_call.op = "find_owner" /\ Found(prev_call)
    /\ prev_call.rates.TEAM_DB_STALE_DATA_RATE = 0
    /\ RowOf(_conn.owners, prev_call).is_active = 1
    /\ Field(Owner(prev_call), "is_active") = Bool(TRUE)

\* C18: whatever calls were made and whatever faults fired, the three
\* backends hold the datasets loaded at construction; and a find_owner made
\* with the staleness rate at 0.0 returns the is_active value that was
\* loaded, also after calls in which the flag was flipped.
C18_DatasetsAreNeverWritten ==
    /\ _collection = DOCS
    /\ _conn = [teams |-> TEAMS, owners |-> OWNERS]
    /\ _services = SERVICES
    /\ \A c \in OwnerLookups :
          (Found(c) /\ c.rates.TEAM_DB_STALE_DATA_RATE = 0) =>
              Field(Owner(c), "is_active") = Bool(RowOf(OWNERS, c).is_active = 1)

\* a find_owner at rate 0.0 right after a find_owner for the same topic in
\* which the flag was flipped
C18_Witness ==
    /\ last_call.op = "find_owner" /\ prev_call.op = "find_owner"
    /\ last_call.arg = prev_call.arg
    /\ Found(last_call) /\ Found(prev_call)
    /\ prev_call.out.effects[Len(prev_call.out.effects)] = Fired
    /\ Field(Owner(prev_call), "is_active") # Field(Owner(last_call), "is_active")
    /\ last_call.rates.TEAM_DB_STALE_DATA_RATE = 0

\* the stored rows that match the topic of the call c
Matching(c) == {_conn.owners[i] : i \in RowsFor(_conn, c.arg)}

\* C19: among the owners that match the topic, the one find_owner returns
\* is stored as active unless none of them is, and no other match with the
\* same stored active state has a name that comes before its name; two
\* calls for the same topic return the same owner.
C19_ActiveFirstThenByName ==
    /\ \A c \in OwnerLookups :
          Found(c) =>
              /\ RowOf(_conn.owners, c) \in Matching(c)
              /\ \A o \in Matching(c) :
                    /\ o.is_active <= RowOf(_conn.owners, c).is_active
                    /\ o.is_active = RowOf(_conn.owners, c).is_active =>
                          NameRank(RowOf(_conn.owners, c).name) <= NameRank(o.name)
    /\ \A c \in OwnerLookups : \A b \in OwnerLookups :
          (c.arg = b.arg /\ Found(c) /\ Found(b)) =>
              Field(Owner(c), "id") = Field(Owner(b), "id")

\* an active owner was returned although an inactive match has a name that
\* comes first, after a call that returned the first by name of two active
\* matches, the other one being the first inserted
C19_Witness ==
    /\ last_call.op = "find_owner" /\ Found(last_call)
    /\ RowOf(_conn.owners, last_call).is_active = 1
    /\ \E o \in Matching(last_call) :
          /\ o.is_active = 0
          /\ NameRank(o.name) < NameRank(RowOf(_conn.owners, last_call).name)
    /\ prev_call.op = "find_owner" /\ Found(prev_call)
    /\ RowOf(_conn.owners, prev_call).is_active = 1
    /\ \E i \in RowsFor(_conn, prev_call.arg) : \E j \in RowsFor(_conn, prev_call.arg) :
          /\ i < j
          /\ _conn.owners[j] = RowOf(_conn.owners, prev_call)
          /\ _conn.owners[i].is_active = 1
          /\ NameRank(_conn.owners[j].name) < NameRank(_conn.owners[i].name)

\* C20: when find_owner(topic) returns found = true, the lower-cased topic
\* is a substring of one of the service names of the returned owner.
C20_TopicIsPartOfAServiceName ==
    \A c \in OwnerLookups :
        Found(c) =>
            \E k \in 1..Len(Field(Owner(c), "services").items) :
                Contains(Lower(Field(Owner(c), "services").items[k].s), Lower(c.arg.s))

\* the tool calls run one at a time that the state remembers, the result of
\* one and the argument its backend was given
ToolRunsMade == {c \in VerifyCalls : c.op = "_execute_tool"}
ToolOf(c) == Field(c.arg, "tool")
ErrorStarts(r, marker) ==
    /\ Field(r, "error") # None
    /\ Head(Field(r, "error").s) = marker
GivenStr(c) ==
    \E key \in DOMAIN Field(c.arg, "args").d : IsStr(Field(c.arg, "args").d[key])
LatencyOf(c) == SelectSeq(c.out.effects, LAMBDA e : e.e = "sleep")

\* C21: under every setting of the rates, a result whose error reports a
\* connection failure comes from search_docs only, and one whose error
\* reports a timeout from check_status only; a find_owner given a str never
\* fails: its backend is invoked once, raises nothing, and does nothing but
\* draw its latency, sleep it (within TEAM_DB_LATENCY_MIN and
\* TEAM_DB_LATENCY_MAX), run the SELECT and, when a row was found, make the
\* staleness draw.
C21_FaultsBelongToTheirBackend ==
    /\ \A c \in ToolRunsMade :
          /\ ErrorStarts(c.out.result, "Connection failed: ") => ToolOf(c) = S("search_docs")
          /\ ErrorStarts(c.out.result, "Timeout: ") => ToolOf(c) = S("check_status")
          /\ (ToolOf(c) = S("find_owner") /\ GivenStr(c)) =>
                /\ ~Failed(c.out.result)
                /\ c.out.escaped = NoExc
                /\ Len(c.out.calls) = 1
                /\ ~c.out.calls[1].out.raised
    /\ \A c \in OwnerLookups :
          IsStr(c.arg) =>
              /\ ~c.out.raised
              /\ Kinds(c) \in { <<"randint", "sleep", "lookup">>,
                                <<"randint", "sleep", "lookup", "random">> }
              /\ Len(LatencyOf(c)) = 1
              /\ LatencyOf(c)[1].n >= TEAM_DB_LATENCY_MIN
              /\ LatencyOf(c)[1].n <= TEAM_DB_LATENCY_MAX

\* with every rate at 1.0, a find_owner tool call succeeded with the flag of
\* an active owner flipped, right after a check_status tool call whose
\* result reports a timeout
C21_Witness ==
    /\ last_call.op = "_execute_tool" /\ prev_call.op = "_execute_tool"
    /\ last_call.rates = Rates(100, 100, 100, 100, 100)
    /\ ToolOf(last_call) = S("find_owner")
    /\ ~Failed(last_call.out.result)
    /\ Field(Field(Field(last_call.out.result, "data"), "owner"), "is_active") = Bool(FALSE)
    /\ ToolOf(prev_call) = S("check_status")
    /\ ErrorStarts(prev_call.out.result, "Timeout: ")

StatusChecks == {c \in VerifyCalls : c.op = "check_status"}

\* C22: a check_status in which the timeout draw held slept
\* STATUS_API_TIMEOUT_LATENCY and then raised TimeoutError, having looked
\* nothing up; a check_status that raised TimeoutError had slept that long
\* before; and with STATUS_API_TIMEOUT_RATE at 1.0 the draw holds in every
\* call, whatever the argument.
C22_TimeoutWaitsThenRaises ==
    \A c \in StatusChecks :
        /\ c.out.effects[1] = Fired =>
              /\ c.out.raised
              /\ c.out.exc.cls = "TimeoutError"
              /\ c.out.effects = <<Fired, Slept(STATUS_API_TIMEOUT_LATENCY)>>
        /\ (c.out.raised /\ c.out.exc.cls = "TimeoutError") =>
              c.out.effects = <<Fired, Slept(STATUS_API_TIMEOUT_LATENCY)>>
        /\ c.rates.STATUS_API_TIMEOUT_RATE = 100 => c.out.effects[1] = Fired

\* a check_status of a value that is no str timed out at rate 1.0, after a
\* check_status of a name that timed out at the rate of the class body
C22_Witness ==
    /\ last_call.op = "check_status" /\ prev_call.op = "check_status"
    /\ last_call.rates.STATUS_API_TIMEOUT_RATE = 100
    /\ ~IsStr(last_call.arg)
    /\ last_call.out.raised /\ last_call.out.exc.cls = "TimeoutError"
    /\ prev_call.rates = DefaultRates
    /\ IsStr(prev_call.arg)
    /\ prev_call.out.raised /\ prev_call.out.exc.cls = "TimeoutError"

\* the stored services whose name is the name asked for, holds it, or is
\* held by it, case-insensitively; and the service a check_status returned
Equal(c) == {i \in 1..Len(_services) : _services[i].key = Lower(c.arg.s)}
Holding(c) == {i \in 1..Len(_services) : Contains(_services[i].key, Lower(c.arg.s))}
HeldBy(c) == {i \in 1..Len(_services) : Contains(Lower(c.arg.s), _services[i].key)}
Returned(c) == ~c.out.raised
ServiceOf(c) == Field(Field(c.out.val, "service"), "name")
NamesOf(idxs) == {Str(_services[i].name) : i \in idxs}

Ran == {w \in DOMAIN plans : HasRun(plans[w])}

\* C24: for every JSON array of tool calls, _plan_tools returns the same
\* list for the bare array, the array inside a code fence and the array
\* inside a code fence tagged json.
C24_FenceMakesNoDifference ==
    \A w \in Ran : \A x \in Ran : plans[w] = plans[x]

\* the datasets as loaded, and what a finished caller must have got from
\* them alone
Loaded == [teams |-> TEAMS, owners |-> OWNERS]
LoadedHits(k) == Nearest(DOCS, k.arg.s, 1..Len(DOCS), TOP_K)
OwnDraw(u, rate) == u < rate
Finished == {callers[c] : c \in {d \in Callers : callers[d].pc = "done"}}

\* C25: in every interleaving of two callers, a finished call has the
\* result the loaded dataset, its own argument and its own draws give: a
\* find_owner returns the first match among the loaded owners with the
\* loaded is_active, negated exactly when its own staleness draw held; a
\* search returns the nearest loaded documents with their distances, raised
\* by the penalty exactly when its own low-similarity draw held; a
\* check_status returns the loaded service.
C25_CallsDoNotSeeEachOther ==
    \A k \in Finished :
        /\ k.op = "find_owner" =>
              /\ Found(k) <=> RowsFor(Loaded, k.arg) # {}
              /\ Found(k) =>
                    /\ Field(Owner(k), "id") =
                          S(OWNERS[FirstRow(OWNERS, RowsFor(Loaded, k.arg))].id)
                    /\ Field(Owner(k), "is_active") =
                          Bool((RowOf(OWNERS, k).is_active = 1)
                               # OwnDraw(k.rnd.u1, Config.TEAM_DB_STALE_DATA_RATE))
        /\ (k.op = "search" /\ ~k.out.raised) =>
              /\ Field(k.out.val, "documents").items =
                    [i \in 1..Len(LoadedHits(k)) |-> S(DOCS[LoadedHits(k)[i]].content)]
              /\ Distances(k) =
                    [i \in 1..Len(LoadedHits(k)) |->
                        Num(Distance(k.arg.s, DOCS[LoadedHits(k)[i]])
                            + IF OwnDraw(k.rnd.u3, Config.VECTOR_DB_LOW_SIMILARITY_RATE)
                              THEN LOW_SIMILARITY_PENALTY ELSE 0)]
        /\ (k.op = "check_status" /\ ~k.out.raised) =>
              /\ Found(k)
              /\ Field(Field(k.out.val, "service"), "status") =
                    S(SERVICES[MatchIn(SERVICES, Lower(k.arg.s))].status)

\* two find_owner calls for the same topic overlapped: one returned with
\* the flag flipped while the other was between its SELECT and its result,
\* and the other one returned the stored flag
C25_Witness ==
    \E k \in Finished : \E j \in Finished :
        /\ k.op = "find_owner" /\ j.op = "find_owner"
        /\ k.arg = j.arg
        /\ Found(k) /\ Found(j)
        /\ k.during /\ ~j.during
        /\ OwnDraw(k.rnd.u1, Config.TEAM_DB_STALE_DATA_RATE)
        /\ ~OwnDraw(j.rnd.u1, Config.TEAM_DB_STALE_DATA_RATE)
        /\ Field(Owner(k), "is_active") # Field(Owner(j), "is_active")

\* the draw at position i of the effects of a call, the last one, and the
\* time the call slept
DrawAt(c, i) == c.out.effects[i]
LastDraw(c) == c.out.effects[Len(c.out.effects)]
Forced(rate, draw) ==
    /\ rate = 0 => draw = NotFired
    /\ rate = 100 => draw = Fired

\* C26: with a rate at 0.0 its fault fires in no call, and with the rate at
\* 1.0 in every call that makes its draw, whatever random.random() returns
\* in [0, 1): a search raises ConnectionError never, or always; one that
\* does not raise sleeps VECTOR_DB_SLOW_QUERY_LATENCY never, or always, and
\* adds the penalty to every distance never, or always; a find_owner that
\* finds an owner negates the stored is_active never, or always; a
\* check_status raises TimeoutError never, or always.
C26_RatesZeroAndOneAreExact ==
    /\ \A c \in Searches :
          /\ Forced(c.rates.VECTOR_DB_FAILURE_RATE, DrawAt(c, 1))
          /\ c.out.raised <=> c.rates.VECTOR_DB_FAILURE_RATE = 100
          /\ ~c.out.raised =>
                /\ Forced(c.rates.VECTOR_DB_SLOW_QUERY_RATE, DrawAt(c, 2))
                /\ (LatencyOf(c)[1].n = VECTOR_DB_SLOW_QUERY_LATENCY)
                      <=> c.rates.VECTOR_DB_SLOW_QUERY_RATE = 100
                /\ Forced(c.rates.VECTOR_DB_LOW_SIMILARITY_RATE, LastDraw(c))
                /\ Distances(c) =
                      [i \in 1..Len(LoadedHits(c)) |->
                          Num(Distance(c.arg.s, DOCS[LoadedHits(c)[i]])
                              + IF c.rates.VECTOR_DB_LOW_SIMILARITY_RATE = 100
                                THEN LOW_SIMILARITY_PENALTY ELSE 0)]
    /\ \A c \in OwnerLookups :
          Found(c) =>
              /\ Forced(c.rates.TEAM_DB_STALE_DATA_RATE, LastDraw(c))
              /\ Field(Owner(c), "is_active") =
                    Bool((RowOf(OWNERS, c).is_active = 1)
                         # (c.rates.TEAM_DB_STALE_DATA_RATE = 100))
    /\ \A c \in StatusChecks :
          /\ Forced(c.rates.STATUS_API_TIMEOUT_RATE, DrawAt(c, 1))
          /\ c.out.raised <=> c.rates.STATUS_API_TIMEOUT_RATE = 100

\* with the failure rate at 0.0 and the slow-query and low-similarity rates
\* at 1.0, a search slept the slow latency and returned penalised distances,
\* after a find_owner whose flag was flipped at rate 1.0
C26_Witness ==
    /\ last_call.op = "search" /\ ~last_call.out.raised
    /\ last_call.rates.VECTOR_DB_FAILURE_RATE = 0
    /\ last_call.rates.VECTOR_DB_SLOW_QUERY_RATE = 100
    /\ last_call.rates.VECTOR_DB_LOW_SIMILARITY_RATE = 100
    /\ LatencyOf(last_call)[1].n = VECTOR_DB_SLOW_QUERY_LATENCY
    /\ Degraded(last_call)
    /\ prev_call.op = "find_owner" /\ Found(prev_call)
    /\ prev_call.rates.TEAM_DB_STALE_DATA_RATE = 100
    /\ LastDraw(prev_call) = Fired

\* C27: in every value query returns, tools_called and tool_results have the
\* same length and tools_called[i] is the tool field of tool_results[i].
C27_ToolsCalledMatchesResults ==
    pc = "done" =>
        /\ Len(retval.tools_called) = Len(retval.tool_results)
        /\ \A i \in 1..Len(retval.tools_called) :
              retval.tools_called[i] = Field(retval.tool_results[i], "tool")

\* the fields of an owner but is_active
OwnerFields == {"id", "name", "email", "slack_handle", "services"}

\* C28: two find_owner calls for the same topic, whether the staleness draw
\* held in one, in both or in neither, return the same owner fields but for
\* is_active and the same team; and the owner returned is chosen by the
\* stored is_active: it is stored as active whenever a match is, also when
\* it is returned as inactive.
C28_FlipDoesNotChangeTheOwner ==
    /\ \A c \in OwnerLookups : \A b \in OwnerLookups :
          (c.arg = b.arg /\ Found(c) /\ Found(b)) =>
              /\ \A key \in OwnerFields : Field(Owner(c), key) = Field(Owner(b), key)
              /\ Field(c.out.val, "team") = Field(b.out.val, "team")
    /\ \A c \in OwnerLookups :
          Found(c) =>
              /\ Field(c.out.val, "team") # None
              /\ \A o \in Matching(c) : o.is_active <= RowOf(_conn.owners, c).is_active

\* for a topic with an active and an inactive match, the active owner was
\* returned as inactive (the draw held) right after it was returned as
\* active (the draw did not hold)
C28_Witness ==
    /\ last_call.op = "find_owner" /\ prev_call.op = "find_owner"
    /\ last_call.arg = prev_call.arg
    /\ Found(last_call) /\ Found(prev_call)
    /\ LastDraw(last_call) = Fired /\ LastDraw(prev_call) = NotFired
    /\ Field(Owner(last_call), "is_active") = Bool(FALSE)
    /\ Field(Owner(prev_call), "is_active") = Bool(TRUE)
    /\ \E o \in Matching(last_call) : o.is_active = 0
    /\ \E o \in Matching(last_call) : o.is_active = 1

\* the service names of a stored owner row
ServiceNamesOf(row) == Loads(row.services).val.items
HasService(row, topic) ==
    \E k \in 1..Len(ServiceNamesOf(row)) :
        Contains(Lower(ServiceNamesOf(row)[k].s), Lower(topic.s))

\* C29: for every file _load_data loads, a find_owner whose topic is part
\* of a service name of a loaded owner, in any case, returns found = true.
C29_ServiceHolderIsFound ==
    \A c \in OwnerLookups :
        (/\ IsStr(c.arg)
         /\ \E i \in 1..Len(_conn.owners) : HasService(_conn.owners[i], c.arg))
            => Found(c)

\* C30: run_repl leaves its loop on every input stream, each of which holds
\* an exit command, is interrupted, or ends; an empty line is not given to
\* the agent; and an exception that a query raised is printed and the loop
\* reads the next line.
C30_ReplTerminates ==
    /\ <>(repl_pc = "exited")
    /\ [](\A i \in 1..Len(agent_queries) : agent_queries[i] # <<>>)
    /\ [][(repl_pc = "except" /\ IsInstance(exception, "Exception"))
            => (repl_pc' = "input" /\ console' = <<"Error: ">> \o exception.msg)]_vars

====
